---------------------------- MODULE Spec2Model ----------------------------
(***************************************************************************)
(* The dimension subsystem of the CSD model (csdfpy / csdmpy).             *)
(*                                                                         *)
(* One linearly sampled dimension (DimensionWithLinearSpacing) with its    *)
(* ReciprocalVariable, the attribute setters of the ControlledVariable     *)
(* facade that act on it, and the Fourier transform of the container.      *)
(*                                                                         *)
(* Physical quantities are value/unit pairs.  Values are exact rationals   *)
(* <<numerator, denominator>>; <<1, 0>> is +infinity.  Units are the few   *)
(* unit strings the bounded inputs use; each has a dimensionality and a    *)
(* scale with respect to the coherent unit of its dimensionality.          *)
(***************************************************************************)
EXTENDS Integers, Sequences, FiniteSets, TLC

(***************************************************************************)
(* Bounds of the model.                                                    *)
(***************************************************************************)
\* largest number of points supplied to the constructor or to the setter
MaxCount == 3
\* largest numerator or denominator an increment may reach by repeated
\* Fourier transforms (each transform maps m to 1/(N*m))
MaxMagnitude == 3
\* largest number of points where the order of the coordinates is examined
MaxOrderCount == 10

(***************************************************************************)
(* Rational arithmetic (the float arithmetic of numpy, taken exactly).     *)
(***************************************************************************)
RECURSIVE GCD(_, _)
GCD(a, b) ==
    IF b = 0 THEN a ELSE GCD(b, a % b)

Abs(x) ==
    IF x < 0 THEN -x ELSE x

Rat(n, d) ==
    IF d = 0 THEN <<1, 0>>
    ELSE LET s == IF d < 0 THEN -1 ELSE 1
             g == GCD(Abs(n), Abs(d))
         IN  <<(s * n) \div g, (s * d) \div g>>

Zero == Rat(0, 1)
Infinity == Rat(1, 0)

RMul(x, y) ==
    Rat(x[1] * y[1], x[2] * y[2])

RDiv(x, y) ==
    Rat(x[1] * y[2], x[2] * y[1])

RSub(x, y) ==
    IF x[2] = 0 THEN x
    ELSE Rat(x[1] * y[2] - y[1] * x[2], x[2] * y[2])

RAdd(x, y) ==
    IF x[2] = 0 THEN x
    ELSE Rat(x[1] * y[2] + y[1] * x[2], x[2] * y[2])

RNeg(x) ==
    <<-x[1], x[2]>>

RLess(x, y) ==
    x[1] * y[2] < y[1] * x[2]

(***************************************************************************)
(* Units (astropy.units as used by unit.py): dimensionality, scale,        *)
(* inverse, conversion.                                                    *)
(***************************************************************************)
Units == {"G", "mT", "1 / G", "1 / mT", "s", "1 / s", ""}

\* physical type of a unit (Unit.physical_type)
physical_type(u) ==
    CASE u \in {"G", "mT"} -> "magnetic flux density"
      [] u \in {"1 / G", "1 / mT"} -> "unknown"
      [] u = "s" -> "time"
      [] u = "1 / s" -> "frequency"
      [] OTHER -> "dimensionless"

\* the dimensionality two units must share to be convertible
Dimensionality(u) ==
    CASE u \in {"G", "mT"} -> <<"magnetic flux density", 1>>
      [] u \in {"1 / G", "1 / mT"} -> <<"magnetic flux density", -1>>
      [] u = "s" -> <<"time", 1>>
      [] u = "1 / s" -> <<"time", -1>>
      [] OTHER -> <<"dimensionless", 0>>

\* value of one unit u in the coherent unit of its dimensionality
\* (1 mT = 10 G)
Scale(u) ==
    CASE u = "mT" -> Rat(10, 1)
      [] u = "1 / mT" -> Rat(1, 10)
      [] u = "ppm" -> Rat(1, 1000000)
      [] OTHER -> Rat(1, 1)

\* unit ** -1
Inverse(u) ==
    CASE u = "G" -> "1 / G"
      [] u = "mT" -> "1 / mT"
      [] u = "1 / G" -> "G"
      [] u = "1 / mT" -> "mT"
      [] u = "s" -> "1 / s"
      [] u = "1 / s" -> "s"
      [] OTHER -> ""

\* a quantity: value * unit
Q(n, d, u) ==
    [value |-> Rat(n, d), unit |-> u]

\* Quantity.to(unit) is defined only between units of one dimensionality;
\* otherwise astropy raises UnitConversionError
Convertible(u, v) ==
    Dimensionality(u) = Dimensionality(v)

\* Quantity.to(unit)
to(q, u) ==
    [value |-> RDiv(RMul(q.value, Scale(q.unit)), Scale(u)), unit |-> u]


(***************************************************************************)
(* Helpers of _utils.py used by the dimension classes.                     *)
(***************************************************************************)
\* Python's None for an optional quantity argument
None == [value |-> <<0, 0>>, unit |-> "None"]

\* _check_unit_consistency(element, unit): does not raise
Consistent(element, unit) ==
    Convertible(element.unit, unit)

\* _check_value_object(element, unit): does not raise
ValueObjectOk(element, unit) ==
    element = None \/ Consistent(element, unit)

\* _check_value_object(element, unit): None is 0 * unit, anything else is
\* the parsed quantity, kept in its own unit
_check_value_object(element, unit) ==
    IF element = None THEN [value |-> Zero, unit |-> unit] ELSE element

\* _check_quantity(None, unit): the physical type of the unit
_check_quantity(unit) ==
    physical_type(unit)

(***************************************************************************)
(* State: the slots of one DimensionWithLinearSpacing and of its           *)
(* ReciprocalVariable, and the outcome of the last call.                   *)
(***************************************************************************)
VARIABLES
    built,                \* the constructor has returned an object
    _type,                \* the _type of its class
    _values,              \* the values of an arbitrary or labeled dimension
    _dimensionless_unit,  \* the unit to() sets for 'ppm'
    _reverse,             \* the order of the coordinates is reversed
    _components,          \* the transform last applied to the dependent variables
    _made_dimensionless,  \* the coordinates are divided by the sum of the offsets
    _absolute_coordinates,\* the cached coordinates shifted by the origin offset
    checked,              \* the last direct call of _check_dimension_indices
    _number_of_points,
    _increment,
    _fft_output_order,
    _unit,
    _reference_offset,
    _origin_offset,
    _period,
    _quantity,
    _label,
    reciprocal,           \* the ReciprocalVariable: a record of its slots
    _coordinates,         \* the cached Quantity array
    called,               \* the operation called last
    raised                \* the exception it raised, "" when it returned

dimension == <<_number_of_points, _increment, _fft_output_order, _unit,
               _reference_offset, _origin_offset, _period, _quantity, _label,
               _coordinates>>

\* what tells the variants of a dimension apart
variant == <<_type, _values, _dimensionless_unit, _reverse, _components,
             _made_dimensionless, _absolute_coordinates, checked>>

vars == <<built, variant, dimension, reciprocal, called, raised>>

(***************************************************************************)
(* Coordinates.                                                            *)
(***************************************************************************)
\* np.arange(a, b)
arange(a, b) ==
    IF b > a THEN [k \in 1..(b - a) |-> a + (k - 1)] ELSE <<>>

\* a faulty index array: the negative half starts at -(N - N \div 2)
_index_long_tail(N, fft_output_order) ==
    IF fft_output_order
    THEN LET n == (N - 1) \div 2 + 1
             p1 == arange(0, n)
             p2 == arange(-(N - N \div 2), 0)
         IN  p1 \o p2
    ELSE arange(0, N)

\* a faulty index array: the negative half comes first
_index_shifted(N, fft_output_order) ==
    IF fft_output_order
    THEN LET n == (N - 1) \div 2 + 1
             p1 == arange(0, n)
             p2 == arange(-(N \div 2), 0)
         IN  p2 \o p1
    ELSE arange(0, N)

\* the index array of _get_coordinates
_index(N, fft_output_order) ==
    IF fft_output_order
    THEN LET n == (N - 1) \div 2 + 1
             p1 == arange(0, n)
             p2 == arange(-(N \div 2), 0)
         IN  p1 \o p2
    ELSE arange(0, N)

\* index array times a quantity
Times(index, q) ==
    [value |-> [k \in 1..Len(index) |-> RMul(Rat(index[k], 1), q.value)],
     unit |-> q.unit]

\* faulty coordinates: the index starts at 1 in the ascending order
_get_coordinates_from_one(unit, N, increment, fft_output_order) ==
    IF fft_output_order
    THEN Times(_index(N, fft_output_order), to(increment, unit))
    ELSE Times(arange(1, N + 1), to(increment, unit))

\* DimensionWithLinearSpacing._get_coordinates: the value it caches
_get_coordinates(unit, N, increment, fft_output_order) ==
    Times(_index(N, fft_output_order), to(increment, unit))

\* the Quantity array after .to(unit)
ArrayTo(array, unit) ==
    [value |-> [k \in 1..Len(array.value) |->
                   to([value |-> array.value[k], unit |-> array.unit], unit).value],
     unit |-> unit]

\* the coordinates accessor, as a function of the slots it reads: the cached
\* array, cut to the number of points, minus the reference offset, in the
\* unit of the dimension
reference_coordinates(cached, N, unit, reference_offset) ==
    LET cut == [value |-> SubSeq(cached.value, 1, N), unit |-> cached.unit]
        x == ArrayTo(cut, unit)
        c == to(reference_offset, unit)
    IN  [k \in 1..Len(x.value) |-> RSub(x.value[k], c.value)]

\* the coordinates accessor of the facade
coordinates ==
    reference_coordinates(_coordinates, _number_of_points, _unit, _reference_offset)

\* the absolute_coordinates accessor: coordinates + origin_offset
absolute_coordinates ==
    LET o == to(_origin_offset, _unit)
    IN  [k \in 1..Len(coordinates) |-> RAdd(coordinates[k], o.value)]

(***************************************************************************)
(* Inputs of the calls, drawn from small sets.                             *)
(***************************************************************************)
\* number_of_points supplied to the constructor
Counts == 1..MaxCount

\* values assigned to number_of_points: 0 is rejected
CountInputs == 0..MaxCount

\* increment strings given to the constructor: "1 G", "2" (dimensionless)
IncrementInputs == {Q(1, 1, "G"), Q(2, 1, "")}

\* increment strings assigned later: "1 G", "1 mT", "2", "-1 G"
IncrementAssigned == {Q(1, 1, "G"), Q(1, 1, "mT"), Q(2, 1, ""), Q(-1, 1, "G")}

\* reference offset strings: "1 G", "-1 mT", "10 s", "1"
OffsetInputs == {Q(1, 1, "G"), Q(-1, 1, "mT"), Q(10, 1, "s"), Q(1, 1, "")}

\* origin offset strings: "1 G", "10 s"
OriginOffsetInputs == {Q(1, 1, "G"), Q(10, 1, "s")}

\* offset strings of the reciprocal: "1 (1/G)", "1 G"
ReciprocalOffsetInputs == {Q(1, 1, "1 / G"), Q(1, 1, "G")}

\* period strings: "2 G", "inf s"
PeriodInputs == {Q(2, 1, "G"), Q(1, 0, "s")}

LabelInputs == {"", "field"}

\* unit strings given to to()
UnitInputs == {"G", "mT", "s", ""}

\* keyword arguments of DimensionWithLinearSpacing.__init__
Arguments ==
    [_number_of_points : Counts,
     _increment : IncrementInputs,
     _reference_offset : {None} \cup OffsetInputs,
     _origin_offset : {None} \cup OriginOffsetInputs,
     _period : {None},
     _label : {""},
     _fft_output_order : BOOLEAN,
     _reciprocal_reference_offset : {None},
     _reciprocal_label : {"inverse field"}]

(***************************************************************************)
(* Construction.                                                           *)
(***************************************************************************)
\* BaseIndependentVariable._set_parameters does not raise
ParametersOk(reference_offset, origin_offset, period, unit) ==
    /\ ValueObjectOk(reference_offset, unit)
    /\ ValueObjectOk(origin_offset, unit)
    /\ ValueObjectOk(period, unit)

\* the period _set_parameters stores: a zero period is infinity
StoredPeriod(period, unit) ==
    LET v == _check_value_object(period, unit)
    IN  IF v.value = Zero THEN [value |-> Infinity, unit |-> v.unit] ELSE v

\* BaseIndependentVariable._set_parameters for the ReciprocalVariable
ReciprocalVariable(reference_offset, origin_offset, period, label, unit) ==
    [_reference_offset |-> _check_value_object(reference_offset, unit),
     _origin_offset |-> _check_value_object(origin_offset, unit),
     _period |-> StoredPeriod(period, unit),
     _quantity |-> _check_quantity(unit),
     _label |-> label,
     _unit |-> unit]

\* DimensionWithLinearSpacing.__init__: the constructor raises, and no
\* object exists, when an offset or a period is inconsistent with the unit
\* of the increment (or, for the reciprocal, with its inverse)
DimensionWithLinearSpacing(a) ==
    LET unit == a._increment.unit
    IN  /\ ~built
        /\ called' = "__init__"
        /\ IF /\ ParametersOk(a._reference_offset, a._origin_offset, a._period, unit)
              /\ ParametersOk(a._reciprocal_reference_offset, None, None, Inverse(unit))
           THEN /\ built' = TRUE
                /\ _type' = "linear_spacing"
                /\ _values' = <<>>
                /\ _dimensionless_unit' = ""
                /\ _reverse' = FALSE
                /\ UNCHANGED <<_components, _made_dimensionless, _absolute_coordinates, checked>>
                /\ raised' = ""
                /\ _number_of_points' = a._number_of_points
                /\ _increment' = a._increment
                /\ _fft_output_order' = a._fft_output_order
                /\ _unit' = unit
                /\ _reference_offset' = _check_value_object(a._reference_offset, unit)
                /\ _origin_offset' = _check_value_object(a._origin_offset, unit)
                /\ _period' = StoredPeriod(a._period, unit)
                /\ _quantity' = _check_quantity(unit)
                /\ _label' = a._label
                /\ reciprocal' = ReciprocalVariable(a._reciprocal_reference_offset,
                                     None, None, a._reciprocal_label, Inverse(unit))
                /\ _coordinates' = _get_coordinates(unit, a._number_of_points,
                                       a._increment, a._fft_output_order)
           ELSE /\ raised' = "DimensionalityError"
                /\ UNCHANGED <<built, variant, dimension, reciprocal>>

(***************************************************************************)
(* Before the constructor is called there is no object.                    *)
(***************************************************************************)
Init ==
    /\ built = FALSE
    /\ _type = "None"
    /\ _values = <<>>
    /\ _dimensionless_unit = ""
    /\ _reverse = FALSE
    /\ _components = ""
    /\ _made_dimensionless = FALSE
    /\ _absolute_coordinates = [value |-> <<>>, unit |-> "None"]
    /\ checked = [d |-> 0, index |-> [form |-> "", items |-> <<>>],
                  raised |-> "", axes |-> <<>>]
    /\ _number_of_points = 0
    /\ _increment = None
    /\ _fft_output_order = FALSE
    /\ _unit = "None"
    /\ _reference_offset = None
    /\ _origin_offset = None
    /\ _period = None
    /\ _quantity = "None"
    /\ _label = ""
    /\ reciprocal = [_reference_offset |-> None, _origin_offset |-> None,
                     _period |-> None, _quantity |-> "None", _label |-> "",
                     _unit |-> "None"]
    /\ _coordinates = [value |-> <<>>, unit |-> "None"]
    /\ called = ""
    /\ raised = ""

(***************************************************************************)
(* Attribute setters.  A setter that raises leaves what it had not yet     *)
(* assigned as it was.                                                     *)
(***************************************************************************)
\* a faulty setter: the checked value is not stored
reference_offset_setter_dropped(value) ==
    /\ built
    /\ called' = "reference_offset"
    /\ IF Consistent(value, _unit)
       THEN raised' = ""
       ELSE raised' = "DimensionalityError"
    /\ UNCHANGED <<built, variant, dimension, reciprocal>>

\* a faulty setter: the value is stored without the check
reference_offset_setter_unchecked(value) ==
    /\ built
    /\ called' = "reference_offset"
    /\ _reference_offset' = value
    /\ raised' = ""
    /\ UNCHANGED <<built, variant, _number_of_points, _increment, _fft_output_order, _unit,
                   _origin_offset, _period, _quantity, _label, _coordinates,
                   reciprocal>>

\* reference_offset.setter: check the unit consistency, then assign
reference_offset_setter(value) ==
    /\ built
    /\ called' = "reference_offset"
    /\ IF Consistent(value, _unit)
       THEN /\ _reference_offset' = value
            /\ raised' = ""
       ELSE /\ raised' = "DimensionalityError"
            /\ UNCHANGED _reference_offset
    /\ UNCHANGED <<built, variant, _number_of_points, _increment, _fft_output_order, _unit,
                   _origin_offset, _period, _quantity, _label, _coordinates,
                   reciprocal>>

\* origin_offset.setter
origin_offset_setter(value) ==
    /\ built
    /\ called' = "origin_offset"
    /\ IF Consistent(value, _unit)
       THEN /\ _origin_offset' = value
            /\ raised' = ""
       ELSE /\ raised' = "DimensionalityError"
            /\ UNCHANGED _origin_offset
    /\ UNCHANGED <<built, variant, _number_of_points, _increment, _fft_output_order, _unit,
                   _reference_offset, _period, _quantity, _label, _coordinates,
                   reciprocal>>

\* period.setter: a string that starts with inf, Inf, infinity, ... is
\* inf * unit whatever follows it; anything else goes through
\* _check_value_object
period_setter(value) ==
    /\ built
    /\ called' = "period"
    /\ IF value.value = Infinity
       THEN /\ _period' = [value |-> Infinity, unit |-> _unit]
            /\ raised' = ""
       ELSE IF ValueObjectOk(value, _unit)
       THEN /\ _period' = _check_value_object(value, _unit)
            /\ raised' = ""
       ELSE /\ raised' = "DimensionalityError"
            /\ UNCHANGED _period
    /\ UNCHANGED <<built, variant, _number_of_points, _increment, _fft_output_order, _unit,
                   _reference_offset, _origin_offset, _quantity, _label,
                   _coordinates, reciprocal>>

\* label.setter
label_setter(label) ==
    /\ built
    /\ called' = "label"
    /\ _label' = label
    /\ raised' = ""
    /\ UNCHANGED <<built, variant, _number_of_points, _increment, _fft_output_order, _unit,
                   _reference_offset, _origin_offset, _period, _quantity,
                   _coordinates, reciprocal>>

\* reciprocal_reference_offset.setter: the same check against the unit of
\* the reciprocal
reciprocal_reference_offset_setter(value) ==
    /\ built
    /\ called' = "reciprocal_reference_offset"
    /\ IF Consistent(value, reciprocal._unit)
       THEN /\ reciprocal' = [reciprocal EXCEPT !._reference_offset = value]
            /\ raised' = ""
       ELSE /\ raised' = "DimensionalityError"
            /\ UNCHANGED reciprocal
    /\ UNCHANGED <<built, variant, dimension>>

\* a faulty setter: the increment is assigned and the coordinates are kept
increment_setter_stale(value) ==
    /\ built
    /\ called' = "increment"
    /\ IF ~Consistent(value, _unit)
       THEN /\ raised' = "DimensionalityError"
            /\ UNCHANGED _increment
       ELSE IF RLess(value.value, Zero)
       THEN /\ raised' = "ValueError"
            /\ UNCHANGED _increment
       ELSE /\ _increment' = value
            /\ raised' = ""
    /\ UNCHANGED <<built, variant, _number_of_points, _fft_output_order, _unit,
                   _reference_offset, _origin_offset, _period, _quantity, _label,
                   _coordinates, reciprocal>>

\* increment.setter: check the unit consistency, reject a negative value,
\* assign, recompute the coordinates
increment_setter(value) ==
    /\ built
    /\ called' = "increment"
    /\ IF ~Consistent(value, _unit)
       THEN /\ raised' = "DimensionalityError"
            /\ UNCHANGED <<_increment, _coordinates>>
       ELSE IF RLess(value.value, Zero)
       THEN /\ raised' = "ValueError"
            /\ UNCHANGED <<_increment, _coordinates>>
       ELSE /\ _increment' = value
            /\ _coordinates' = _get_coordinates(_unit, _number_of_points, value,
                                                _fft_output_order)
            /\ raised' = ""
    /\ UNCHANGED <<built, variant, _number_of_points, _fft_output_order, _unit,
                   _reference_offset, _origin_offset, _period, _quantity, _label,
                   reciprocal>>

\* fft_output_order.setter: assign, then recompute the coordinates;
\* _get_coordinates raises in increment.to(unit) when the increment is not
\* convertible to the unit, after the flag is assigned
FFT_output_order_setter(value) ==
    /\ built
    /\ called' = "fft_output_order"
    /\ _fft_output_order' = value
    /\ IF Convertible(_increment.unit, _unit)
       THEN /\ _coordinates' = _get_coordinates(_unit, _number_of_points, _increment,
                                                value)
            /\ raised' = ""
       ELSE /\ raised' = "UnitConversionError"
            /\ UNCHANGED _coordinates
    /\ UNCHANGED <<built, variant, _number_of_points, _increment, _unit, _reference_offset,
                   _origin_offset, _period, _quantity, _label, reciprocal>>

\* a faulty number_of_points.setter: no test against the number of
\* coordinates of an arbitrary or labeled dimension
number_of_points_setter_unbounded(value) ==
    /\ built
    /\ called' = "number_of_points"
    /\ IF value <= 0
       THEN /\ raised' = "ValueError"
            /\ UNCHANGED <<_number_of_points, _coordinates>>
       ELSE IF _type # "linear_spacing"
       THEN /\ _number_of_points' = value
            /\ raised' = ""
            /\ UNCHANGED _coordinates
       ELSE /\ _number_of_points' = value
            /\ IF Convertible(_increment.unit, _unit)
               THEN /\ _coordinates' = _get_coordinates(_unit, value, _increment,
                                                        _fft_output_order)
                    /\ raised' = ""
               ELSE /\ raised' = "UnitConversionError"
                    /\ UNCHANGED _coordinates
    /\ UNCHANGED <<built, variant, _increment, _fft_output_order, _unit, _reference_offset,
                   _origin_offset, _period, _quantity, _label, reciprocal>>

\* number_of_points.setter, for an integer value: reject a value <= 0; on
\* an arbitrary or labeled dimension reject a value above the number of
\* points and assign a smaller one to _number_of_points alone (with a
\* warning); on a linear dimension assign, then recompute the coordinates
number_of_points_setter(value) ==
    /\ built
    /\ called' = "number_of_points"
    /\ IF value <= 0
       THEN /\ raised' = "ValueError"
            /\ UNCHANGED <<_number_of_points, _coordinates>>
       ELSE IF _type # "linear_spacing"
       THEN IF value > _number_of_points
            THEN /\ raised' = "ValueError: Cannot set the number of points"
                 /\ UNCHANGED <<_number_of_points, _coordinates>>
            ELSE /\ _number_of_points' = value
                 /\ raised' = ""
                 /\ UNCHANGED _coordinates
       ELSE /\ _number_of_points' = value
            /\ IF Convertible(_increment.unit, _unit)
               THEN /\ _coordinates' = _get_coordinates(_unit, value, _increment,
                                                        _fft_output_order)
                    /\ raised' = ""
               ELSE /\ raised' = "UnitConversionError"
                    /\ UNCHANGED _coordinates
    /\ UNCHANGED <<built, variant, _increment, _fft_output_order, _unit, _reference_offset,
                   _origin_offset, _period, _quantity, _label, reciprocal>>

\* a faulty _to: the unit is assigned without the check
_to_unchecked(unit) ==
    /\ built
    /\ called' = "to"
    /\ _unit' = unit
    /\ raised' = ""
    /\ UNCHANGED <<built, variant, _number_of_points, _increment, _fft_output_order,
                   _reference_offset, _origin_offset, _period, _quantity, _label,
                   _coordinates, reciprocal>>

\* _to(unit): the new unit must be consistent with the old one; only the
\* unit is assigned
_to(unit) ==
    /\ built
    /\ called' = "to"
    /\ IF Convertible(unit, _unit)
       THEN /\ _unit' = unit
            /\ raised' = ""
       ELSE /\ raised' = "DimensionalityError"
            /\ UNCHANGED _unit
    /\ UNCHANGED <<built, variant, _number_of_points, _increment, _fft_output_order,
                   _reference_offset, _origin_offset, _period, _quantity, _label,
                   _coordinates, reciprocal>>

Construct ==
    \E a \in Arguments : DimensionWithLinearSpacing(a)

SetReferenceOffset ==
    \E value \in OffsetInputs : reference_offset_setter(value)

SetOriginOffset ==
    \E value \in OriginOffsetInputs : origin_offset_setter(value)

SetPeriod ==
    \E value \in PeriodInputs : period_setter(value)

SetLabel ==
    \E label \in LabelInputs : label_setter(label)

SetReciprocalReferenceOffset ==
    \E value \in ReciprocalOffsetInputs : reciprocal_reference_offset_setter(value)

SetIncrement ==
    \E value \in IncrementAssigned : increment_setter(value)

SetFFTOutputOrder ==
    \E value \in BOOLEAN : FFT_output_order_setter(value)

SetNumberOfPoints ==
    \E value \in CountInputs : number_of_points_setter(value)

ConvertUnit ==
    \E unit \in UnitInputs : _to(unit)

\* the same calls with up to MaxOrderCount points
OrderArguments ==
    [_number_of_points : 1..MaxOrderCount,
     _increment : IncrementInputs,
     _reference_offset : {None, Q(1, 1, "G")},
     _origin_offset : {None},
     _period : {None},
     _label : {""},
     _fft_output_order : BOOLEAN,
     _reciprocal_reference_offset : {None},
     _reciprocal_label : {"inverse field"}]

ConstructOrder ==
    \E a \in OrderArguments : DimensionWithLinearSpacing(a)

SetNumberOfPointsOrder ==
    \E value \in 0..MaxOrderCount : number_of_points_setter(value)

\* construction and the attribute setters of the facade
Next ==
    \/ Construct
    \/ SetReferenceOffset
    \/ SetOriginOffset
    \/ SetPeriod
    \/ SetReciprocalReferenceOffset
    \/ SetIncrement
    \/ SetFFTOutputOrder
    \/ SetNumberOfPoints
    \/ ConvertUnit

Spec == Init /\ [][Next]_vars

\* construction, the calls that recompute the coordinates, the unit
\* conversion and the label, with up to MaxOrderCount points
NextOrder ==
    \/ ConstructOrder
    \/ SetNumberOfPointsOrder
    \/ SetFFTOutputOrder
    \/ SetIncrement
    \/ ConvertUnit
    \/ SetLabel

SpecOrder == Init /\ [][NextOrder]_vars

(***************************************************************************)
(* The reciprocal pairing: _swap and the Fourier transform.                *)
(***************************************************************************)
\* the slots _swap exchanges, as a record
Fields ==
    [_reference_offset |-> _reference_offset,
     _origin_offset |-> _origin_offset,
     _period |-> _period,
     _quantity |-> _quantity,
     _label |-> _label,
     _unit |-> _unit]

\* a faulty _swap: the slots of the reciprocal are copied, not exchanged
_swap_copy(self, other) ==
    [dimension |->
        [_reference_offset |-> other._reference_offset,
         _origin_offset |-> other._origin_offset,
         _period |-> other._period,
         _quantity |-> other._quantity,
         _label |-> other._label,
         _unit |-> other._unit],
     reciprocal |-> other]

\* a faulty _swap: the labels are not exchanged
_swap_partial(self, other) ==
    [dimension |->
        [_reference_offset |-> other._reference_offset,
         _origin_offset |-> other._origin_offset,
         _period |-> other._period,
         _quantity |-> other._quantity,
         _label |-> self._label,
         _unit |-> other._unit],
     reciprocal |->
        [_reference_offset |-> self._reference_offset,
         _origin_offset |-> self._origin_offset,
         _period |-> self._period,
         _quantity |-> self._quantity,
         _label |-> other._label,
         _unit |-> self._unit]]

\* DimensionWithLinearSpacing._swap: six tuple assignments between the
\* slots of the dimension (self) and those of self.reciprocal; the value is
\* the pair of objects after the last of them.  None of them can raise.
_swap(self, other) ==
    [dimension |->
        [_reference_offset |-> other._reference_offset,
         _origin_offset |-> other._origin_offset,
         _period |-> other._period,
         _quantity |-> other._quantity,
         _label |-> other._label,
         _unit |-> other._unit],
     reciprocal |->
        [_reference_offset |-> self._reference_offset,
         _origin_offset |-> self._origin_offset,
         _period |-> self._period,
         _quantity |-> self._quantity,
         _label |-> self._label,
         _unit |-> self._unit]]

\* the state after _swap(): the increment, the count, the flag and the
\* cached coordinates are not slots _swap touches
Swapped(pair) ==
    /\ _reference_offset' = pair.dimension._reference_offset
    /\ _origin_offset' = pair.dimension._origin_offset
    /\ _period' = pair.dimension._period
    /\ _quantity' = pair.dimension._quantity
    /\ _label' = pair.dimension._label
    /\ _unit' = pair.dimension._unit
    /\ reciprocal' = pair.reciprocal

\* a caller calls _swap()
Swap ==
    /\ built
    /\ called' = "_swap"
    /\ raised' = ""
    /\ Swapped(_swap(Fields, reciprocal))
    /\ UNCHANGED <<built, variant, _number_of_points, _increment, _fft_output_order,
                   _coordinates>>

\* 1.0 / (count * increment)
ReciprocalIncrement(count, increment) ==
    [value |-> RDiv(Rat(1, 1), RMul(Rat(count, 1), increment.value)),
     unit |-> Inverse(increment.unit)]

\* the model follows an increment only while its numerator and denominator
\* stay within MaxMagnitude
Bounded(q) ==
    /\ Abs(q.value[1]) <= MaxMagnitude
    /\ q.value[2] <= MaxMagnitude

\* fft(self, dimension): refused for a dimension that is not linear; on a
\* linear one compute the reciprocal increment from _count and _increment,
\* _swap, assign the increment in the unit after the swap, compute the
\* phase from the offset now held by the reciprocal (.to(unit_in)) and from
\* _coordinates.to(unit), transform the components of the dependent
\* variables (ifft when the flag of the output order is set, fft
\* otherwise) and toggle the flag (_complex_fft there, _fft_output_order
\* in _get_coordinates), recompute the coordinates.  Each Quantity.to
\* raises when the units are not convertible, and what was assigned before
\* it stays assigned.
fft ==
    LET unit_in == _unit
        _reciprocal_increment == ReciprocalIncrement(_number_of_points, _increment)
        unit == reciprocal._unit
        increment == to(_reciprocal_increment, unit)
    IN  /\ built
        /\ called' = "fft"
        /\ IF _type # "linear_spacing"
           THEN /\ raised' = "NotImplementedError"
                /\ UNCHANGED <<dimension, reciprocal, _components>>
           ELSE /\ Convertible(_reciprocal_increment.unit, unit) => Bounded(increment)
                /\ Swapped(_swap(Fields, reciprocal))
                /\ UNCHANGED _number_of_points
                /\ IF ~Convertible(_reciprocal_increment.unit, unit)
                   THEN /\ raised' = "UnitConversionError"
                        /\ UNCHANGED <<_increment, _fft_output_order, _coordinates,
                                       _components>>
                   ELSE /\ _increment' = increment
                        /\ IF \/ ~Convertible(_reference_offset.unit, unit_in)
                              \/ ~Convertible(_coordinates.unit, unit)
                           THEN /\ raised' = "UnitConversionError"
                                /\ UNCHANGED <<_fft_output_order, _coordinates,
                                               _components>>
                           ELSE /\ _components' = IF _fft_output_order
                                                  THEN "ifft" ELSE "fft"
                                /\ _fft_output_order' = ~_fft_output_order
                                /\ _coordinates' = _get_coordinates(unit,
                                                       _number_of_points, increment,
                                                       ~_fft_output_order)
                                /\ raised' = ""
        /\ UNCHANGED <<built, _type, _values, _dimensionless_unit, _reverse,
                       _made_dimensionless, _absolute_coordinates, checked>>

\* the setters together with _swap and the Fourier transform
NextReciprocal ==
    \/ Construct
    \/ SetReferenceOffset
    \/ SetPeriod
    \/ SetIncrement
    \/ ConvertUnit
    \/ Swap
    \/ fft

SpecReciprocal == Init /\ [][NextReciprocal]_vars

(***************************************************************************)
(* Properties of the coordinates.                                          *)
(***************************************************************************)
\* the cached coordinates, expressed in the unit of the dimension
Cached ==
    ArrayTo(_coordinates, _unit).value

\* an index array times the increment, in the unit of the dimension
Scaled(index) ==
    Times(index, to(_increment, _unit)).value

\* C1: with N >= 1 points, increment m, reference offset 0 and the flag of
\* the fft output order false, the coordinates are the N values
\* 0, m, 2m, ..., (N-1)m in that order.
C1_LinearCoordinates ==
    (/\ built
     /\ _number_of_points >= 1
     /\ _reference_offset.value = Zero
     /\ ~_fft_output_order) =>
        /\ Len(_coordinates.value) = _number_of_points
        /\ \A j \in 0..(_number_of_points - 1) :
              Cached[j + 1] = RMul(Rat(j, 1), to(_increment, _unit).value)

\* ten points 1 mT apart, read in G: the last coordinate is 90 G
C1_Witness ==
    /\ built
    /\ raised = ""
    /\ _reference_offset.value = Zero
    /\ ~_fft_output_order
    /\ _number_of_points = 10
    /\ _increment = Q(1, 1, "mT")
    /\ _unit = "G"
    /\ Cached[10] = Rat(90, 1)

\* C3 as stated: with the flag true the index sequence is 0, ..., n-1
\* followed by -(N - floor(N/2)), ..., -1, where n = floor((N-1)/2) + 1,
\* for every N.
C3_StatedIndexSequence ==
    (built /\ _fft_output_order) =>
        LET N == _number_of_points
            n == (N - 1) \div 2 + 1
            head == [k \in 1..n |-> k - 1]
            tail == [k \in 1..(N - N \div 2) |-> k - 1 - (N - N \div 2)]
        IN  Cached = Scaled(head \o tail)

\* C3: with N >= 1 points and the flag true, the index sequence is
\* 0, ..., n-1 followed by -floor(N/2), ..., -1, where
\* n = floor((N-1)/2) + 1, for even and for odd N.
C3_FFTIndexSequence ==
    (built /\ _fft_output_order) =>
        LET N == _number_of_points
            n == (N - 1) \div 2 + 1
            head == [k \in 1..n |-> k - 1]
            tail == [k \in 1..(N \div 2) |-> k - 1 - (N \div 2)]
        IN  Cached = Scaled(head \o tail)

\* five points in the fft output order: 0, 1, 2, -2, -1 times the increment
C3_Witness ==
    /\ built
    /\ _fft_output_order
    /\ _number_of_points = 5
    /\ _increment = Q(1, 1, "G")
    /\ Cached[3] = Rat(2, 1)
    /\ Cached[4] = Rat(-2, 1)

\* C4: for every N >= 1, with the flag set to true there are exactly N
\* coordinates in the order of the DFT bins: the indices 0..ceil(N/2)-1
\* ascending, then -floor(N/2)..-1 ascending, each times the increment
\* (N = 10: 0,1,2,3,4,-5,-4,-3,-2,-1; N = 5: 0,1,2,-2,-1;
\* N = 6: 0,1,2,-3,-2,-1).
C4_DFTBinOrder ==
    (built /\ _fft_output_order) =>
        LET N == _number_of_points
            Bin(k) == IF k <= (N + 1) \div 2 THEN k - 1 ELSE k - 1 - N
        IN  /\ Len(_coordinates.value) = N
            /\ \A k \in 1..N :
                  Cached[k] = RMul(Rat(Bin(k), 1), to(_increment, _unit).value)
            /\ (N = 10) => (Cached = Scaled(<<0, 1, 2, 3, 4, -5, -4, -3, -2, -1>>))
            /\ (N = 5) => (Cached = Scaled(<<0, 1, 2, -2, -1>>))
            /\ (N = 6) => (Cached = Scaled(<<0, 1, 2, -3, -2, -1>>))

\* the flag was just set to true on ten dimensionless points 2 apart
C4_Witness ==
    /\ built
    /\ called = "fft_output_order"
    /\ raised = ""
    /\ _fft_output_order
    /\ _number_of_points = 10
    /\ _increment = Q(2, 1, "")
    /\ Cached[6] = Rat(-10, 1)

\* C5: in every state after construction and after any assignments to the
\* increment, the number of points and the flag, the cached coordinates are
\* the index sequence of the current (number of points, flag) times the
\* current increment; no setter returns with stale coordinates.
C5_CoordinatesCurrent ==
    built =>
        /\ Len(_coordinates.value) = _number_of_points
        /\ Cached = Scaled(_index(_number_of_points, _fft_output_order))

\* the number of points was just set to 3 with the flag true and the
\* increment 1 mT
C5_Witness ==
    /\ called = "number_of_points"
    /\ raised = ""
    /\ _fft_output_order
    /\ _number_of_points = 3
    /\ _increment = Q(1, 1, "mT")
    /\ _unit = "G"
    /\ Cached = <<Rat(0, 1), Rat(10, 1), Rat(-10, 1)>>

\* C2: after reference_offset := c the coordinates are j*m - c for every
\* index j; raising the reference offset by delta lowers every coordinate
\* by delta, and the number of points stays as it was.
C2_ReferenceOffsetShift ==
    [][(called' = "reference_offset" /\ raised' = "") =>
          \A c \in OffsetInputs :
              reference_offset_setter(c) =>
                  LET N == _number_of_points
                      m == to(_increment, _unit).value
                      j == _index(N, _fft_output_order)
                      before == coordinates
                      delta == RSub(to(c, _unit).value,
                                    to(_reference_offset, _unit).value)
                      after == reference_coordinates(_coordinates', _number_of_points',
                                                     _unit', _reference_offset')
                  IN  /\ _number_of_points' = N
                      /\ Len(after) = N
                      /\ \A k \in 1..N :
                            /\ after[k] = RSub(RMul(Rat(j[k], 1), m), to(c, _unit).value)
                            /\ after[k] = RSub(before[k], delta)]_vars

\* the reference offset was just set to -1 mT: the first of three
\* coordinates is 10 G
C2_Witness ==
    /\ called = "reference_offset"
    /\ raised = ""
    /\ _reference_offset = Q(-1, 1, "mT")
    /\ _unit = "G"
    /\ _number_of_points = 3
    /\ ~_fft_output_order
    /\ coordinates[1] = Rat(10, 1)

\* C10: a reference offset or an origin offset whose dimensionality differs
\* from that of the unit of the dimension is rejected with
\* DimensionalityError, by the constructor and by the setters; the rejected
\* assignment leaves the offsets, the other fields and the coordinates as
\* they were.
C10_InconsistentOffsetRejected ==
    [][/\ \A a \in (IF built THEN {} ELSE Arguments) :
             (/\ DimensionWithLinearSpacing(a)
              /\ \/ ~(a._reference_offset = None
                        \/ Convertible(a._reference_offset.unit, a._increment.unit))
                 \/ ~(a._origin_offset = None
                        \/ Convertible(a._origin_offset.unit, a._increment.unit)))
                 => (raised' = "DimensionalityError" /\ ~built')
       /\ \A value \in OffsetInputs :
             (reference_offset_setter(value) /\ ~Convertible(value.unit, _unit))
                 => (/\ raised' = "DimensionalityError"
                     /\ UNCHANGED <<built, variant, dimension, reciprocal>>)
       /\ \A value \in OriginOffsetInputs :
             (origin_offset_setter(value) /\ ~Convertible(value.unit, _unit))
                 => (/\ raised' = "DimensionalityError"
                     /\ UNCHANGED <<built, variant, dimension, reciprocal>>)]_vars

\* "10 s" was just refused as the reference offset of a dimension in G,
\* which keeps the offset -1 mT
C10_Witness ==
    /\ called = "reference_offset"
    /\ raised = "DimensionalityError"
    /\ _unit = "G"
    /\ _reference_offset = Q(-1, 1, "mT")
    /\ _origin_offset = Q(1, 1, "G")

(***************************************************************************)
(* Properties of the reciprocal pairing.                                   *)
(***************************************************************************)
\* the step exchanges all six slots between the dimension and its reciprocal
Exchanged ==
    /\ _reference_offset' = reciprocal._reference_offset
    /\ _origin_offset' = reciprocal._origin_offset
    /\ _period' = reciprocal._period
    /\ _quantity' = reciprocal._quantity
    /\ _label' = reciprocal._label
    /\ _unit' = reciprocal._unit
    /\ reciprocal' = Fields

\* C6: after _swap(), a second _swap() gives back the reference offset, the
\* origin offset, the period, the quantity, the label and the unit of the
\* dimension and of its reciprocal as they were before the first.
C6_SwapTwiceRestores ==
    [][Swap =>
          LET after == [_reference_offset |-> _reference_offset',
                        _origin_offset |-> _origin_offset',
                        _period |-> _period',
                        _quantity |-> _quantity',
                        _label |-> _label',
                        _unit |-> _unit']
              again == _swap(after, reciprocal')
          IN  /\ again.dimension = Fields
              /\ again.reciprocal = reciprocal]_vars

\* _swap() was just called on a dimension in G with offsets of its own
C6_Witness ==
    /\ called = "_swap"
    /\ _unit = "1 / G"
    /\ _label = "inverse field"
    /\ reciprocal._unit = "G"
    /\ reciprocal._reference_offset = Q(1, 1, "G")
    /\ reciprocal._origin_offset = Q(1, 1, "G")
    /\ reciprocal._label = ""

\* C7: _swap() gives each of the six slots of the dimension the value the
\* reciprocal had and each slot of the reciprocal the value the dimension
\* had; no step exchanges the units without exchanging the other five.
C7_SwapExchangesAll ==
    [][/\ (called' \in {"_swap", "fft"}) => Exchanged
       /\ (/\ _unit # reciprocal._unit
           /\ _unit' = reciprocal._unit
           /\ reciprocal'._unit = _unit) => Exchanged]_vars

\* _swap() just gave the reciprocal the period 2 G and the offset -1 mT
C7_Witness ==
    /\ called = "_swap"
    /\ raised = ""
    /\ _quantity = physical_type("1 / G")
    /\ reciprocal._quantity = physical_type("G")
    /\ reciprocal._period = Q(2, 1, "G")
    /\ reciprocal._reference_offset = Q(-1, 1, "mT")
    /\ _period.value = Infinity

\* C8 as stated: the transform of a dimension with N points and increment m
\* returns with the increment 1/(N*m) in the unit after the swap, the six
\* slots exchanged with the reciprocal, the flag of the output order negated
\* and the coordinates recomputed from the new increment and the new flag.
C8_TransformStated ==
    [][fft =>
          /\ raised' = ""
          /\ Exchanged
          /\ _increment' = to(ReciprocalIncrement(_number_of_points, _increment), _unit')
          /\ _fft_output_order' = ~_fft_output_order
          /\ _coordinates' = _get_coordinates(_unit', _number_of_points',
                                 _increment', _fft_output_order')]_vars

\* the offsets and the period have the dimensionality of the unit, and the
\* slots of the reciprocal the inverse one
OffsetsConsistent(unit, reference_offset, origin_offset, period, other) ==
    /\ Convertible(reference_offset.unit, unit)
    /\ Convertible(origin_offset.unit, unit)
    /\ Convertible(period.unit, unit)
    /\ Convertible(other._unit, Inverse(unit))
    /\ Convertible(other._reference_offset.unit, Inverse(unit))
    /\ Convertible(other._origin_offset.unit, Inverse(unit))
    /\ Convertible(other._period.unit, Inverse(unit))

\* the increment and the cached coordinates have the dimensionality of the
\* unit
IncrementConsistent(unit, increment, cached) ==
    /\ Convertible(increment.unit, unit)
    /\ Convertible(cached.unit, unit)

SignedIncrements == {Q(1, 1, "G"), Q(0, 1, "G"), Q(-1, 1, "G")}

\* period strings: "0 G", "2 G", "inf G"
ZeroPeriodInputs == {Q(0, 1, "G"), Q(2, 1, "G"), Q(1, 0, "G")}

\* keyword arguments of DimensionWithLinearSpacing.__init__ with an
\* increment and a number of points of any sign and a period that may be
\* zero
SignedArguments ==
    [_number_of_points : 0..MaxCount,
     _increment : SignedIncrements,
     _reference_offset : {None},
     _origin_offset : {None},
     _period : {None, Q(0, 1, "G"), Q(2, 1, "G")},
     _label : {""},
     _fft_output_order : BOOLEAN,
     _reciprocal_reference_offset : {None},
     _reciprocal_label : {""}]

ConstructSigned ==
    \E a \in SignedArguments : DimensionWithLinearSpacing(a)

SetIncrementSigned ==
    \E value \in SignedIncrements : increment_setter(value)

SetPeriodZero ==
    \E value \in ZeroPeriodInputs : period_setter(value)

\* construction and the setters that validate a value
NextValidation ==
    \/ ConstructSigned
    \/ SetIncrementSigned
    \/ SetPeriodZero
    \/ SetNumberOfPoints
    \/ SetFFTOutputOrder

SpecValidation == Init /\ [][NextValidation]_vars

\* C11 as stated: a zero or negative increment is rejected with ValueError
\* by the constructor and by the setter, so the increment is strictly
\* positive in every state; a rejected assignment leaves the increment and
\* the coordinates as they were.
C11_StatedPositiveIncrement ==
    built => RLess(Zero, _increment.value)

\* C18 as stated: the period of a quantitative dimension and of its
\* reciprocal is never zero; a new dimension has the period +infinity on
\* both, and a zero period given to the constructor or assigned is stored
\* as +infinity.
C18_StatedPeriodNeverZero ==
    built => (_period.value # Zero /\ reciprocal._period.value # Zero)

(***************************************************************************)
(* The arbitrary and the labeled dimension, and the facade that chooses    *)
(* the variant from the keys of its dictionary.                            *)
(***************************************************************************)
\* longest list of values given to an arbitrary or a labeled dimension
MaxValues == 3

\* lists of labels
LabelValues ==
    {<<>>, <<"a">>, <<"b", "a">>, <<"a", "b", "c">>}

\* lists of quantity strings: [], ["1 G"], ["2 s", "3 s"],
\* ["1 G", "1 mT", "3 G"], ["1 G", "10 s"]
QuantityValues ==
    {<<>>, <<Q(1, 1, "G")>>, <<Q(2, 1, "s"), Q(3, 1, "s")>>,
     <<Q(1, 1, "G"), Q(1, 1, "mT"), Q(3, 1, "G")>>,
     <<Q(1, 1, "G"), Q(10, 1, "s")>>}

\* the slots a dimension without unit does not have
Unquantified ==
    /\ _increment' = None
    /\ _fft_output_order' = FALSE
    /\ _unit' = "None"
    /\ _reference_offset' = None
    /\ _origin_offset' = None
    /\ _period' = None
    /\ _quantity' = "None"
    /\ reciprocal' = [_reference_offset |-> None, _origin_offset |-> None,
                      _period |-> None, _quantity |-> "None", _label |-> "",
                      _unit |-> "None"]

\* DimensionWithLabels.__init__ and its _get_coordinates: the number of
\* points is len(_values), whatever it is
DimensionWithLabels(values, label, reverse) ==
    /\ ~built
    /\ called' = "__init__"
    /\ built' = TRUE
    /\ raised' = ""
    /\ _type' = "labeled"
    /\ _values' = values
    /\ _dimensionless_unit' = ""
    /\ _reverse' = reverse
    /\ UNCHANGED <<_components, _made_dimensionless, _absolute_coordinates, checked>>
    /\ _coordinates' = [value |-> values, unit |-> "None"]
    /\ _number_of_points' = Len(values)
    /\ _label' = label
    /\ Unquantified

\* DimensionWithArbitrarySpacing: what __init__ or _get_coordinates raises
\* for a list of values, "" when nothing: _values[0] of an empty list, an
\* item inconsistent with the unit
ArbitraryRaises(values, unit) ==
    IF \E k \in 1..Len(values) : ~Consistent(values[k], unit)
    THEN "DimensionalityError"
    ELSE ""

\* DimensionWithArbitrarySpacing._get_coordinates: the array it caches
ArbitraryCoordinates(values, unit) ==
    [value |-> [k \in 1..Len(values) |-> to(values[k], unit).value],
     unit |-> unit]

\* DimensionWithArbitrarySpacing.__init__
DimensionWithArbitrarySpacing(values) ==
    /\ ~built
    /\ called' = "__init__"
    /\ IF values = <<>>
       THEN /\ raised' = "IndexError"
            /\ UNCHANGED <<built, variant, dimension, reciprocal>>
       ELSE IF ArbitraryRaises(values, values[1].unit) # ""
       THEN /\ raised' = ArbitraryRaises(values, values[1].unit)
            /\ UNCHANGED <<built, variant, dimension, reciprocal>>
       ELSE LET unit == values[1].unit
            IN  /\ built' = TRUE
                /\ raised' = ""
                /\ _type' = "arbitrary_spacing"
                /\ _unit' = unit
                /\ _reference_offset' = _check_value_object(None, unit)
                /\ _origin_offset' = _check_value_object(None, unit)
                /\ _period' = StoredPeriod(None, unit)
                /\ _quantity' = _check_quantity(unit)
                /\ _label' = ""
                /\ reciprocal' = ReciprocalVariable(None, None, None, "", Inverse(unit))
                /\ _coordinates' = ArbitraryCoordinates(values, unit)
                /\ _values' = values
                /\ _dimensionless_unit' = ""
                /\ _reverse' = FALSE
                /\ UNCHANGED <<_components, _made_dimensionless, _absolute_coordinates, checked>>
                /\ _number_of_points' = Len(values)
                /\ _increment' = None
                /\ _fft_output_order' = FALSE

\* _check_non_quantitative raises: non_quantitative without values
_check_non_quantitative_raises(d) ==
    d.non_quantitative /\ d.values = {}

\* _check_quantitative raises: none of number_of_points,
\* sampling_interval and values is given
_check_quantitative_raises(d) ==
    /\ ~d.non_quantitative
    /\ d.number_of_points = {}
    /\ d.sampling_interval = None
    /\ d.values = {}

\* _check_non_quantitative returns True
_check_non_quantitative(d) ==
    d.non_quantitative

\* _check_quantitative_arbitrary returns True
_check_quantitative_arbitrary(d) ==
    ~d.non_quantitative /\ d.values # {}

\* _check_quantitative_linear returns True
_check_quantitative_linear(d) ==
    /\ ~d.non_quantitative
    /\ d.number_of_points # {}
    /\ d.sampling_interval # None

\* the keyword arguments the facade passes to the linear dimension
LinearArguments(d) ==
    [_number_of_points |-> CHOOSE n \in d.number_of_points : TRUE,
     _increment |-> d.sampling_interval,
     _reference_offset |-> None,
     _origin_offset |-> None,
     _period |-> None,
     _label |-> "",
     _fft_output_order |-> FALSE,
     _reciprocal_reference_offset |-> None,
     _reciprocal_label |-> ""]

\* the list under the key values
ValuesOf(d) ==
    CHOOSE v \in d.values : TRUE

\* the constructor raises before any object is kept
Refused(exception) ==
    /\ ~built
    /\ called' = "__init__"
    /\ raised' = exception
    /\ UNCHANGED <<built, variant, dimension, reciprocal>>

\* a faulty ControlledVariable.__init__: the arbitrary dimension is kept
\* when the values are given along with the count and the increment
ControlledVariable_values_first(d) ==
    IF _check_non_quantitative_raises(d) \/ _check_quantitative_raises(d)
    THEN Refused("Exception")
    ELSE IF _check_non_quantitative(d)
    THEN DimensionWithLabels(ValuesOf(d), d.label, d.reverse)
    ELSE IF /\ _check_quantitative_arbitrary(d)
            /\ _check_quantitative_linear(d)
            /\ ValuesOf(d) = <<>>
    THEN Refused("IndexError")
    ELSE IF /\ _check_quantitative_arbitrary(d)
            /\ _check_quantitative_linear(d)
            /\ ArbitraryRaises(ValuesOf(d), ValuesOf(d)[1].unit) # ""
    THEN Refused(ArbitraryRaises(ValuesOf(d), ValuesOf(d)[1].unit))
    ELSE IF _check_quantitative_arbitrary(d)
    THEN DimensionWithArbitrarySpacing(ValuesOf(d))
    ELSE IF _check_quantitative_linear(d)
    THEN DimensionWithLinearSpacing(LinearArguments(d))
    ELSE Refused("UnboundLocalError")

\* ControlledVariable.__init__: three tests in turn, each instantiating its
\* class when it holds (labeled, then arbitrary, then linear), the last
\* object instantiated being the one kept under gcv; with none
\* instantiated the name _gcv_object is unbound where it is read
ControlledVariable(d) ==
    IF _check_non_quantitative_raises(d) \/ _check_quantitative_raises(d)
    THEN Refused("Exception")
    ELSE IF _check_non_quantitative(d)
    THEN DimensionWithLabels(ValuesOf(d), d.label, d.reverse)
    ELSE IF /\ _check_quantitative_arbitrary(d)
            /\ _check_quantitative_linear(d)
            /\ ValuesOf(d) = <<>>
    THEN Refused("IndexError")
    ELSE IF /\ _check_quantitative_arbitrary(d)
            /\ _check_quantitative_linear(d)
            /\ ArbitraryRaises(ValuesOf(d), ValuesOf(d)[1].unit) # ""
    THEN Refused(ArbitraryRaises(ValuesOf(d), ValuesOf(d)[1].unit))
    ELSE IF _check_quantitative_linear(d)
    THEN DimensionWithLinearSpacing(LinearArguments(d))
    ELSE IF _check_quantitative_arbitrary(d)
    THEN DimensionWithArbitrarySpacing(ValuesOf(d))
    ELSE Refused("UnboundLocalError")

\* values.setter of the facade: not for a linear dimension; otherwise
\* _get_coordinates(array) of the variant
values_setter(array) ==
    /\ built
    /\ called' = "values"
    /\ IF _type = "linear_spacing"
       THEN /\ raised' = "AttributeError"
            /\ UNCHANGED <<_values, _coordinates, _number_of_points>>
       ELSE IF _type = "arbitrary_spacing" /\ ArbitraryRaises(array, _unit) # ""
       THEN /\ raised' = ArbitraryRaises(array, _unit)
            /\ UNCHANGED <<_values, _coordinates, _number_of_points>>
       ELSE /\ raised' = ""
            /\ _values' = array
            /\ _number_of_points' = Len(array)
            /\ _coordinates' = IF _type = "labeled"
                               THEN [value |-> array, unit |-> "None"]
                               ELSE ArbitraryCoordinates(array, _unit)
    /\ UNCHANGED <<built, _type, _dimensionless_unit, _reverse, _components, _made_dimensionless,
                   _absolute_coordinates, checked, _increment, _fft_output_order, _unit,
                   _reference_offset, _origin_offset, _period, _quantity, _label,
                   reciprocal>>

\* a faulty head of number_of_points.setter: a float is truncated to an
\* int instead of being refused
number_of_points_assigned_coerced(x) ==
    number_of_points_setter(x.value)

\* the head of number_of_points.setter: a value that is not an int is
\* refused with TypeError; an int goes on
number_of_points_assigned(x) ==
    IF x.type # "int"
    THEN /\ built
         /\ called' = "number_of_points"
         /\ raised' = "TypeError"
         /\ UNCHANGED <<built, variant, dimension, reciprocal>>
    ELSE number_of_points_setter(x.value)

\* a faulty to(): no case for 'ppm', which goes to the test of consistency
ControlledVariable_to_no_ppm(unit) ==
    /\ built
    /\ called' = "to"
    /\ IF _type = "labeled"
       THEN /\ raised' = "AttributeError"
            /\ UNCHANGED <<_unit, _dimensionless_unit>>
       ELSE IF Convertible(unit, _unit)
       THEN /\ _unit' = unit
            /\ raised' = ""
            /\ UNCHANGED _dimensionless_unit
       ELSE /\ raised' = "DimensionalityError"
            /\ UNCHANGED <<_unit, _dimensionless_unit>>
    /\ UNCHANGED <<built, _type, _values, _reverse, _components, _made_dimensionless,
                   _absolute_coordinates, checked, _number_of_points, _increment,
                   _fft_output_order, _reference_offset, _origin_offset, _period,
                   _quantity, _label, _coordinates, reciprocal>>

\* ControlledVariable.to(unit): not for a labeled dimension; 'ppm' sets
\* _dimensionless_unit and nothing else; any other unit must be consistent
\* with the unit of the dimension and is then assigned to _unit
ControlledVariable_to(unit) ==
    /\ built
    /\ called' = "to"
    /\ IF _type = "labeled"
       THEN /\ raised' = "AttributeError"
            /\ UNCHANGED <<_unit, _dimensionless_unit>>
       ELSE IF unit = "ppm"
       THEN /\ _dimensionless_unit' = "ppm"
            /\ raised' = ""
            /\ UNCHANGED _unit
       ELSE IF Convertible(unit, _unit)
       THEN /\ _unit' = unit
            /\ raised' = ""
            /\ UNCHANGED _dimensionless_unit
       ELSE /\ raised' = "DimensionalityError"
            /\ UNCHANGED <<_unit, _dimensionless_unit>>
    /\ UNCHANGED <<built, _type, _values, _reverse, _components, _made_dimensionless,
                   _absolute_coordinates, checked, _number_of_points, _increment,
                   _fft_output_order, _reference_offset, _origin_offset, _period,
                   _quantity, _label, _coordinates, reciprocal>>

\* a faulty reverse.setter: the stored values are put in the new order
reverse_setter_reordering(x) ==
    /\ built
    /\ called' = "reverse"
    /\ IF x.type # "bool"
       THEN /\ raised' = "TypeError"
            /\ UNCHANGED <<_reverse, _values>>
       ELSE /\ _reverse' = x.value
            /\ _values' = [k \in 1..Len(_values) |-> _values[Len(_values) + 1 - k]]
            /\ raised' = ""
    /\ UNCHANGED <<built, _type, _dimensionless_unit, _components, _made_dimensionless,
                   _absolute_coordinates, checked, dimension, reciprocal>>

\* reverse.setter of the facade: a value that is not a bool is refused;
\* a bool is assigned to _reverse and to nothing else
reverse_setter(x) ==
    /\ built
    /\ called' = "reverse"
    /\ IF x.type # "bool"
       THEN /\ raised' = "TypeError"
            /\ UNCHANGED <<_reverse, _values>>
       ELSE /\ _reverse' = x.value
            /\ raised' = ""
            /\ UNCHANGED _values
    /\ UNCHANGED <<built, _type, _dimensionless_unit, _components, _made_dimensionless,
                   _absolute_coordinates, checked, dimension, reciprocal>>

\* values assigned to reverse: True, False and the string 'yes'
AssignedReverse ==
    [type : {"bool"}, value : BOOLEAN] \cup {[type |-> "str", value |-> TRUE]}

\* unit strings given to to() of the facade
FacadeUnits == {"G", "mT", "s", "ppm"}

\* dictionaries of a quantitative dimension: each key given or not
QuantitativeDictionaries ==
    [non_quantitative : {FALSE},
     number_of_points : {{}, {0}, {2}},
     sampling_interval : {None, Q(1, 1, "G"), Q(2, 1, "s")},
     values : {{}} \cup {{v} : v \in QuantityValues}]

\* dictionaries of a non-quantitative dimension
LabeledDictionaries ==
    [non_quantitative : {TRUE},
     number_of_points : {{}, {2}},
     sampling_interval : {None, Q(1, 1, "G")},
     values : {{}} \cup {{v} : v \in LabelValues},
     label : {"", "site"},
     reverse : BOOLEAN]

\* values assigned to number_of_points: the integers 0..MaxValues + 1 and
\* the float 1.5
AssignedCounts ==
    [type : {"int"}, value : 0..(MaxValues + 1)]
        \cup {[type |-> "float", value |-> 1]}

ConstructQuantitative ==
    \E d \in QuantitativeDictionaries : ControlledVariable(d)

ConstructLabeled ==
    \E d \in LabeledDictionaries : ControlledVariable(d)

AssignNumberOfPoints ==
    \E x \in AssignedCounts : number_of_points_assigned(x)

SetLabelValues ==
    \E array \in LabelValues : _type # "arbitrary_spacing" /\ values_setter(array)

SetQuantityValues ==
    \E array \in QuantityValues : _type = "arbitrary_spacing" /\ values_setter(array)

ConvertUnitFacade ==
    \E unit \in FacadeUnits : ControlledVariable_to(unit)

SetReverse ==
    \E x \in AssignedReverse : reverse_setter(x)

\* the facade: construction from a dictionary, the assignments of the
\* number of points and of the values, and the conversion of the unit
NextVariants ==
    \/ ConstructQuantitative
    \/ ConstructLabeled
    \/ AssignNumberOfPoints
    \/ SetLabelValues
    \/ SetQuantityValues
    \/ ConvertUnitFacade
    \/ SetReverse

SpecVariants == Init /\ [][NextVariants]_vars

(***************************************************************************)
(* Claims about the number of points of the variants.                      *)
(***************************************************************************)
\* C12 as stated: in every reachable state of every variant (a linear
\* dimension built with any count, an arbitrary or a labeled one with
\* values of any length, and after any assignment of the count or of the
\* values) the number of points is at least one
C12_StatedCountAtLeastOne ==
    built => _number_of_points >= 1

\* the values assigned to number_of_points that are not an int or not
\* positive
InvalidCounts ==
    {x \in AssignedCounts : x.type # "int" \/ x.value <= 0}

\* C13 as stated: assigning the count a non-integer or an integer <= 0 is
\* rejected with ValueError on every variant, and the count, the values
\* and the coordinates keep their prior values
C13_StatedValueError ==
    [][\A x \in InvalidCounts :
         number_of_points_assigned(x)
             => /\ raised' = "ValueError"
                /\ UNCHANGED <<_number_of_points, _values, _coordinates>>]_vars

\* C13, amended: assigning the count a non-integer is rejected with
\* TypeError and an integer <= 0 with ValueError, on every variant, and the
\* count, the values and the coordinates keep their prior values
C13_InvalidCountRejected ==
    [][\A x \in InvalidCounts :
         number_of_points_assigned(x)
             => /\ raised' = (IF x.type # "int" THEN "TypeError" ELSE "ValueError")
                /\ UNCHANGED <<_number_of_points, _values, _coordinates>>]_vars

\* a float assigned to the count of a labeled dimension was refused
C13_Witness ==
    /\ built
    /\ _type = "labeled"
    /\ called = "number_of_points"
    /\ raised = "TypeError"
    /\ _number_of_points = 2

\* C14 as stated: on an arbitrary or labeled dimension of n values,
\* assigning the count k with 1 <= k < n sets the count to k and leaves the
\* values and the coordinates equal to their first k entries, so that
\* count = len(values) = len(coordinates)
C14_StatedTruncation ==
    [][\A k \in 1..MaxValues :
         (_type # "linear_spacing" /\ k < _number_of_points
             /\ number_of_points_setter(k))
             => /\ _number_of_points' = k
                /\ _values' = SubSeq(_values, 1, k)
                /\ _coordinates'.value = SubSeq(_coordinates.value, 1, k)]_vars

\* C15: on an arbitrary or labeled dimension of n values, assigning the
\* count k > n is rejected with ValueError and leaves the count, the values
\* and the coordinates unchanged
C15_CountAboveLengthRejected ==
    [][\A k \in 1..(MaxValues + 1) :
         (_type # "linear_spacing" /\ k > _number_of_points
             /\ number_of_points_setter(k))
             => /\ raised' = "ValueError: Cannot set the number of points"
                /\ UNCHANGED <<_number_of_points, _values, _coordinates>>]_vars

\* the count 3 was refused on an arbitrary dimension of two values
C15_Witness ==
    /\ built
    /\ _type = "arbitrary_spacing"
    /\ Len(_values) = 2
    /\ _number_of_points = 2
    /\ called = "number_of_points"
    /\ raised = "ValueError: Cannot set the number of points"

(***************************************************************************)
(* Claims about the selection of the variant.                              *)
(***************************************************************************)
\* the variant the selection rule names for a dictionary: labeled when
\* non_quantitative is true (with values); otherwise linear when the count
\* and the increment are both present; otherwise arbitrary when the values
\* are present; "None" when the rule names none
StatedVariant(d) ==
    IF d.non_quantitative
    THEN IF d.values # {} THEN "labeled" ELSE "None"
    ELSE IF d.number_of_points # {} /\ d.sampling_interval # None
    THEN "linear_spacing"
    ELSE IF d.values # {}
    THEN "arbitrary_spacing"
    ELSE "None"

\* C16: for every accepted configuration the facade ends with a dimension
\* of exactly one variant: labeled when non_quantitative is true (with
\* values); otherwise linear when the count and the increment are both
\* present, even if the values are present too; otherwise arbitrary when
\* the values are present
C16_VariantSelected ==
    [][/\ \A d \in QuantitativeDictionaries :
             (ControlledVariable(d) /\ built')
                 => (_type' = StatedVariant(d) /\ _type' # "None")
       /\ \A d \in LabeledDictionaries :
             (ControlledVariable(d) /\ built')
                 => (_type' = StatedVariant(d) /\ _type' # "None")]_vars

\* a linear dimension of two points was built from a dictionary
C16_Witness ==
    /\ built
    /\ called = "__init__"
    /\ raised = ""
    /\ _type = "linear_spacing"
    /\ _number_of_points = 2
    /\ _values = <<>>

\* the dictionaries the rule refuses: non_quantitative true without
\* values; non_quantitative false without values and lacking the count or
\* the increment
StatedRefused(d) ==
    /\ d.values = {}
    /\ (d.non_quantitative
           \/ d.number_of_points = {}
           \/ d.sampling_interval = None)

\* C17 as stated: construction fails with a configuration error and
\* creates no dimension when non_quantitative is true and the values are
\* missing, and when non_quantitative is false, the values are missing and
\* the count or the increment is missing (the count alone and the
\* increment alone included)
C17_StatedConfigurationError ==
    [][/\ \A d \in QuantitativeDictionaries :
             (StatedRefused(d) /\ ControlledVariable(d))
                 => (raised' = "Exception" /\ ~built')
       /\ \A d \in LabeledDictionaries :
             (StatedRefused(d) /\ ControlledVariable(d))
                 => (raised' = "Exception" /\ ~built')]_vars

(***************************************************************************)
(* The dictionary of a dimension.                                          *)
(***************************************************************************)
\* labels, among them one made of white space only
DictionaryLabels == {"", " ", "field"}

\* str.strip on these labels
strip(label) ==
    IF label = " " THEN "" ELSE label

\* value_object_format: the number and the unit of a quantity, as text
value_object_format(q) ==
    <<q.value, q.unit>>

\* a dictionary with the key when the test holds, the empty one otherwise
Entry(test, key, value) ==
    IF test THEN key :> value ELSE [k \in {} |-> value]

\* a faulty _get_quantitative_dictionary: the label is tested without
\* strip(), so a label of white space is kept
_get_quantitative_dictionary_unstripped(v) ==
    Entry(v._reference_offset.value # Zero, "reference_offset",
          value_object_format(v._reference_offset))
    @@ Entry(v._origin_offset.value # Zero, "origin_offset",
             value_object_format(v._origin_offset))
    @@ Entry(v._quantity \notin {"None", "unknown", "dimensionless"}, "quantity",
             v._quantity)
    @@ Entry(v._period.value \notin {Zero, Infinity}, "period",
             value_object_format(v._period))
    @@ Entry(v._label # "", "label", v._label)

\* BaseIndependentVariable._get_quantitative_dictionary
_get_quantitative_dictionary(v) ==
    Entry(v._reference_offset.value # Zero, "reference_offset",
          value_object_format(v._reference_offset))
    @@ Entry(v._origin_offset.value # Zero, "origin_offset",
             value_object_format(v._origin_offset))
    @@ Entry(v._quantity \notin {"None", "unknown", "dimensionless"}, "quantity",
             v._quantity)
    @@ Entry(v._period.value \notin {Zero, Infinity}, "period",
             value_object_format(v._period))
    @@ Entry(strip(v._label) # "", "label", v._label)

\* the slots of the dimension that _get_quantitative_dictionary reads
self ==
    [_reference_offset |-> _reference_offset,
     _origin_offset |-> _origin_offset,
     _quantity |-> _quantity,
     _period |-> _period,
     _label |-> _label]

\* _get_python_dictionary of the three classes
_get_python_dictionary ==
    LET reciprocal_dictionary == _get_quantitative_dictionary(reciprocal)
    IN  IF _type = "linear_spacing"
        THEN ("type" :> _type)
             @@ ("number_of_points" :> _number_of_points)
             @@ ("increment" :> value_object_format(_increment))
             @@ _get_quantitative_dictionary(self)
             @@ Entry(_fft_output_order, "FFT_output_order", TRUE)
             @@ Entry(DOMAIN reciprocal_dictionary # {}, "reciprocal",
                      reciprocal_dictionary)
        ELSE IF _type = "arbitrary_spacing"
        THEN ("type" :> _type)
             @@ ("values" :> _values)
             @@ _get_quantitative_dictionary(self)
             @@ Entry(DOMAIN reciprocal_dictionary # {}, "reciprocal",
                      reciprocal_dictionary)
        ELSE ("type" :> _type) @@ ("values" :> _coordinates.value)

\* keyword arguments of the linear dimension, each field default or not
DictionaryArguments ==
    [_number_of_points : {2},
     _increment : {Q(1, 1, "G"), Q(1, 1, "s")},
     _reference_offset : {None, Q(1, 1, "G")},
     _origin_offset : {None, Q(1, 1, "G")},
     _period : {None, Q(2, 1, "G")},
     _label : DictionaryLabels,
     _fft_output_order : BOOLEAN,
     _reciprocal_reference_offset : {None, Q(1, 1, "1 / G")},
     _reciprocal_label : DictionaryLabels]

ConstructDictionary ==
    \E a \in DictionaryArguments : DimensionWithLinearSpacing(a)

ConstructArbitrary ==
    \E values \in QuantityValues : DimensionWithArbitrarySpacing(values)

SetDictionaryLabel ==
    \E label \in DictionaryLabels : label_setter(label)

\* construction of a linear or an arbitrary dimension, and the assignments
\* that move a field to or from its default
NextDictionary ==
    \/ ConstructDictionary
    \/ ConstructArbitrary
    \/ SetPeriodZero
    \/ SetDictionaryLabel
    \/ SetReferenceOffset
    \/ SetReciprocalReferenceOffset

SpecDictionary == Init /\ [][NextDictionary]_vars

(***************************************************************************)
(* Claims about the dictionary.                                            *)
(***************************************************************************)
\* the keys of the dictionary
Keys == DOMAIN _get_python_dictionary

\* the dimension is a linear or an arbitrary one
Quantitative ==
    built /\ _type \in {"linear_spacing", "arbitrary_spacing"}

\* the keys that are always there, and those there only off the default
RequiredAndOptionalKeys ==
    /\ "type" \in Keys
    /\ _type = "linear_spacing" => {"number_of_points", "increment"} \subseteq Keys
    /\ _type = "arbitrary_spacing" => "values" \in Keys
    /\ "reference_offset" \in Keys => _reference_offset.value # Zero
    /\ "origin_offset" \in Keys => _origin_offset.value # Zero
    /\ "period" \in Keys => _period.value \notin {Zero, Infinity}
    /\ "label" \in Keys => _label # ""
    /\ "FFT_output_order" \in Keys => _fft_output_order # FALSE

\* C19 as stated: the dictionary of a quantitative dimension always has
\* the type and the count and increment (linear) or the values
\* (arbitrary); it has reference_offset, origin_offset, period, label and
\* fft_output_order only when they differ from their defaults (zero
\* offset, infinite or zero period, empty label, false); and it has the
\* nested reciprocal key if and only if at least one field of the
\* reciprocal differs from its default
C19_StatedDictionary ==
    Quantitative =>
        /\ RequiredAndOptionalKeys
        /\ "reciprocal" \in Keys
              <=> \/ reciprocal._reference_offset.value # Zero
                  \/ reciprocal._origin_offset.value # Zero
                  \/ reciprocal._period.value \notin {Zero, Infinity}
                  \/ reciprocal._quantity \notin {"None", "unknown", "dimensionless"}
                  \/ reciprocal._label # ""

\* C19, amended: the same, a label of the reciprocal made of white space
\* only counting as the default
C19_Dictionary ==
    Quantitative =>
        /\ RequiredAndOptionalKeys
        /\ "reciprocal" \in Keys
              <=> \/ reciprocal._reference_offset.value # Zero
                  \/ reciprocal._origin_offset.value # Zero
                  \/ reciprocal._period.value \notin {Zero, Infinity}
                  \/ reciprocal._quantity \notin {"None", "unknown", "dimensionless"}
                  \/ reciprocal._label \notin {"", " "}

\* a linear dimension with every optional field at its default except a
\* reciprocal label of white space: no reciprocal key
C19_Witness ==
    /\ Quantitative
    /\ _type = "linear_spacing"
    /\ _unit = "G"
    /\ reciprocal._label = " "
    /\ reciprocal._reference_offset.value = Zero
    /\ _label = "field"
    /\ _period.value = Zero
    /\ Keys = {"type", "number_of_points", "increment", "quantity", "label"}

(***************************************************************************)
(* Claim about the conversion of the unit.                                 *)
(***************************************************************************)
\* an array of numbers in one unit, expressed in another
Converted(x, unit, target) ==
    [k \in 1..Len(x) |-> to([value |-> x[k], unit |-> unit], target).value]

StrictlyAscending(x) ==
    \A k \in 1..(Len(x) - 1) : RLess(x[k], x[k + 1])

\* C21 as stated: in every reachable state of an arbitrary dimension the
\* coordinates are strictly ascending, a list of values that is not
\* strictly ascending in the unit of its first element being rejected at
\* construction and at assignment
C21_StatedAscending ==
    (built /\ _type = "arbitrary_spacing") => StrictlyAscending(_coordinates.value)

CSDModel_fft ==
    LET _reciprocal_increment == ReciprocalIncrement(_number_of_points, _increment)
        unit == reciprocal._unit
        increment == to(_reciprocal_increment, unit)
    IN  /\ built
        /\ called' = "fft"
        /\ IF _type = "labeled"
           THEN /\ raised' = "ValueError"
                /\ UNCHANGED <<dimension, reciprocal, _components>>
           ELSE IF _type = "arbitrary_spacing"
           THEN /\ raised' = "NotImplementedError"
                /\ UNCHANGED <<dimension, reciprocal, _components>>
           ELSE /\ Convertible(_reciprocal_increment.unit, unit)
                /\ Bounded(increment)
                /\ _components' = "fft"
                /\ Swapped(_swap(Fields, reciprocal))
                /\ _increment' = increment
                /\ _fft_output_order' = ~_fft_output_order
                /\ _coordinates' = _get_coordinates(unit, _number_of_points,
                                                    increment, ~_fft_output_order)
                /\ raised' = ""
                /\ UNCHANGED _number_of_points
        /\ UNCHANGED <<built, _type, _values, _dimensionless_unit, _reverse,
                       _made_dimensionless, _absolute_coordinates, checked>>

\* a dataset with one dimension of any variant, and the two transforms
NextTransform ==
    \/ ConstructQuantitative
    \/ ConstructLabeled
    \/ AssignNumberOfPoints
    \/ fft
    \/ CSDModel_fft

SpecTransform == Init /\ [][NextTransform]_vars

\* C23 as stated: a Fourier transform requested along a dimension that is
\* not linear (arbitrary or labeled) fails with an unsupported-operation
\* error (NotImplementedError) and leaves the fields of the dimension, its
\* reciprocal and the data of every dependent variable unchanged
C23_StatedUnsupported ==
    [][((fft \/ CSDModel_fft) /\ _type \in {"arbitrary_spacing", "labeled"})
          => /\ raised' = "NotImplementedError"
             /\ UNCHANGED <<variant, dimension, reciprocal>>]_vars

(***************************************************************************)
(* The attributes of the facade that apply to some variants only.          *)
(***************************************************************************)
\* the attributes the facade guards by variable_type
GuardedAttributes ==
    {"sampling_interval", "fft_output_order", "values", "reference_offset",
     "origin_offset", "period", "quantity"}

\* the variants an attribute applies to: variable_type ==
\* _quantitative_variable_types[0] for sampling_interval and
\* fft_output_order, != for values, in _quantitative_variable_types for the
\* offsets, the period and the quantity
Applies(attribute) ==
    CASE attribute \in {"sampling_interval", "fft_output_order"} -> {"linear_spacing"}
      [] attribute = "values" -> {"arbitrary_spacing", "labeled"}
      [] OTHER -> {"linear_spacing", "arbitrary_spacing"}

\* raise AttributeError(_attribute_message(variable_type, attribute))
Inapplicable(attribute) ==
    /\ built
    /\ called' = attribute
    /\ raised' = "AttributeError"
    /\ UNCHANGED <<built, variant, dimension, reciprocal>>

\* the getter of a guarded attribute: a copy of the slot, or AttributeError
ControlledVariable_get(attribute) ==
    IF _type \in Applies(attribute)
    THEN /\ built
         /\ called' = attribute
         /\ raised' = ""
         /\ UNCHANGED <<built, variant, dimension, reciprocal>>
    ELSE Inapplicable(attribute)

\* sampling_interval.setter of the facade
sampling_interval_setter(value) ==
    IF _type \in Applies("sampling_interval")
    THEN increment_setter(value)
    ELSE Inapplicable("sampling_interval")

\* a faulty fft_output_order.setter of the facade: no test of the variant
ControlledVariable_fft_output_order_unguarded(value) ==
    FFT_output_order_setter(value)

\* fft_output_order.setter of the facade
ControlledVariable_fft_output_order(value) ==
    IF _type \in Applies("fft_output_order")
    THEN FFT_output_order_setter(value)
    ELSE Inapplicable("fft_output_order")

\* reference_offset.setter of the facade
ControlledVariable_reference_offset(value) ==
    IF _type \in Applies("reference_offset")
    THEN reference_offset_setter(value)
    ELSE Inapplicable("reference_offset")

\* origin_offset.setter of the facade
ControlledVariable_origin_offset(value) ==
    IF _type \in Applies("origin_offset")
    THEN origin_offset_setter(value)
    ELSE Inapplicable("origin_offset")

\* period.setter of the facade
ControlledVariable_period(value) ==
    IF _type \in Applies("period")
    THEN period_setter(value)
    ELSE Inapplicable("period")

\* quantity.setter of the facade: not implemented, whatever the variant
quantity_setter ==
    /\ built
    /\ called' = "quantity"
    /\ raised' = "NotImplementedError"
    /\ UNCHANGED <<built, variant, dimension, reciprocal>>

ReadAttribute ==
    \E attribute \in GuardedAttributes : ControlledVariable_get(attribute)

SetSamplingInterval ==
    \E value \in IncrementAssigned : sampling_interval_setter(value)

SetFacadeFFTOutputOrder ==
    \E value \in BOOLEAN : ControlledVariable_fft_output_order(value)

SetFacadeReferenceOffset ==
    \E value \in OffsetInputs : ControlledVariable_reference_offset(value)

SetFacadeOriginOffset ==
    \E value \in OriginOffsetInputs : ControlledVariable_origin_offset(value)

SetFacadePeriod ==
    \E value \in PeriodInputs : ControlledVariable_period(value)

\* the facade: construction from a dictionary, and the getters and setters
\* of the guarded attributes
NextAttributes ==
    \/ ConstructQuantitative
    \/ ConstructLabeled
    \/ ReadAttribute
    \/ SetSamplingInterval
    \/ SetFacadeFFTOutputOrder
    \/ SetFacadeReferenceOffset
    \/ SetFacadeOriginOffset
    \/ SetFacadePeriod
    \/ quantity_setter
    \/ SetLabelValues
    \/ SetQuantityValues

SpecAttributes == Init /\ [][NextAttributes]_vars

\* the call failed with an attribute error and changed nothing
AttributeRefused ==
    /\ raised' = "AttributeError"
    /\ UNCHANGED <<variant, dimension, reciprocal>>

\* reading any guarded attribute, or writing one other than the quantity,
\* on a variant it does not apply to, fails with an attribute error and
\* changes nothing
InapplicableRefused ==
    /\ \A attribute \in GuardedAttributes :
          (_type \notin Applies(attribute) /\ ControlledVariable_get(attribute))
              => AttributeRefused
    /\ \A value \in IncrementAssigned :
          (_type # "linear_spacing" /\ sampling_interval_setter(value))
              => AttributeRefused
    /\ \A value \in BOOLEAN :
          (_type # "linear_spacing" /\ ControlledVariable_fft_output_order(value))
              => AttributeRefused
    /\ \A array \in LabelValues :
          (_type = "linear_spacing" /\ values_setter(array)) => AttributeRefused
    /\ \A value \in OffsetInputs :
          (_type = "labeled" /\ ControlledVariable_reference_offset(value))
              => AttributeRefused
    /\ \A value \in OriginOffsetInputs :
          (_type = "labeled" /\ ControlledVariable_origin_offset(value))
              => AttributeRefused
    /\ \A value \in PeriodInputs :
          (_type = "labeled" /\ ControlledVariable_period(value))
              => AttributeRefused

\* C24 as stated: reading or writing a field that does not apply to the
\* active variant (the increment or fft_output_order on an arbitrary or
\* labeled dimension, the values on a linear one, any offset, the period or
\* the quantity kind on a labeled one) fails with an attribute error and
\* leaves the dimension unchanged
C24_StatedAttributeError ==
    [][/\ InapplicableRefused
       /\ (_type = "labeled" /\ quantity_setter) => AttributeRefused]_vars

\* C24, amended: the same for every read and for every write but that of
\* the quantity kind, which fails with NotImplementedError on every
\* variant and leaves the dimension unchanged
C24_AttributeError ==
    [][/\ InapplicableRefused
       /\ quantity_setter
             => /\ raised' = "NotImplementedError"
                /\ UNCHANGED <<variant, dimension, reciprocal>>]_vars

\* fft_output_order was refused on an arbitrary dimension of three values
C24_Witness ==
    /\ built
    /\ _type = "arbitrary_spacing"
    /\ called = "fft_output_order"
    /\ raised = "AttributeError"
    /\ Len(_coordinates.value) = 3
    /\ ~_fft_output_order

(***************************************************************************)
(* _nonLinearQuantitativeControlledVariable (studium): the array are *)
(* kept in _coordinates and shifted in place by _getCoordinates.           *)
(***************************************************************************)
MaxCoordinate == 3
MaxDivisor == 1

\* the model follows a coordinate array only while every coordinate, taken
\* in the coherent unit, has its numerator within MaxCoordinate and its
\* denominator within MaxDivisor
InRange(array) ==
    \A k \in 1..Len(array.value) :
        LET v == RMul(array.value[k], Scale(array.unit))
        IN  Abs(v[1]) <= MaxCoordinate /\ v[2] <= MaxDivisor

\* array + quantity, in the unit of the array
Shifted(array, q) ==
    [value |-> [k \in 1..Len(array.value) |->
                   RAdd(array.value[k], to(q, array.unit).value)],
     unit |-> array.unit]

\* array * factor, in the unit given
ByFactor(array, factor, unit) ==
    [value |-> [k \in 1..Len(array.value) |-> RMul(array.value[k], factor)],
     unit |-> unit]

\* -quantity
Negative(q) ==
    [value |-> RNeg(q.value), unit |-> q.unit]

\* origin_offset + reference_offset, in the unit of the origin offset
Denominator(origin_offset, reference_offset) ==
    [value |-> RAdd(origin_offset.value,
                    to(reference_offset, origin_offset.unit).value),
     unit |-> origin_offset.unit]

\* _getCoordinates: self.coordinates - reference_offset.to(unit), divided
\* in place by the sum of the offsets when made_dimensionless, stored in
\* _coordinates; then _value + _origin_offset stored in
\* _absolute_coordinates.  A subtraction or an addition of quantities of
\* two dimensionalities raises UnitConversionError, with the slots assigned
\* before it kept.  The result: what is raised and the two slots afterwards.
_getCoordinates(array, unit, reference_offset, origin_offset, made_dimensionless, absolute) ==
    LET _ro == to(reference_offset, unit)
        _oo == to(origin_offset, unit)
        difference == Shifted(array, Negative(_ro))
        sum == Denominator(_oo, _ro)
        _value == IF made_dimensionless
                  THEN ByFactor(difference,
                             RDiv(Scale(difference.unit),
                                  RMul(sum.value, Scale(unit))), "")
                  ELSE difference
    IN  IF ~Convertible(array.unit, unit)
        THEN [raised |-> "UnitConversionError",
              _coordinates |-> array,
              _absolute_coordinates |-> absolute]
        ELSE IF ~Convertible(_value.unit, unit)
        THEN [raised |-> "UnitConversionError",
              _coordinates |-> _value,
              _absolute_coordinates |-> absolute]
        ELSE [raised |-> "",
              _coordinates |-> _value,
              _absolute_coordinates |-> Shifted(_value, _oo)]

\* __init__(_coordinates, _reference_offset, _origin_offset,
\* _made_dimensionless): the count, the unit of the first coordinate, the
\* offsets checked against it, the flags, the coordinates converted to the
\* unit, then _getCoordinates.  _values keeps the list given to the
\* constructor.
nonLinearQuantitativeControlledVariable(array, reference_offset, origin_offset, made_dimensionless) ==
    /\ ~built
    /\ called' = "__init__"
    /\ IF array = <<>>
       THEN /\ raised' = "IndexError"
            /\ UNCHANGED <<built, variant, dimension, reciprocal>>
       ELSE LET unit == array[1].unit
                _ro == _check_value_object(reference_offset, unit)
                _oo == _check_value_object(origin_offset, unit)
                g == _getCoordinates(ArbitraryCoordinates(array, unit),
                                     unit, _ro, _oo, made_dimensionless,
                                     _absolute_coordinates)
            IN  IF \/ ~ValueObjectOk(reference_offset, unit)
                   \/ ~ValueObjectOk(origin_offset, unit)
                   \/ ArbitraryRaises(array, unit) # ""
                THEN /\ raised' = "DimensionalityError"
                     /\ UNCHANGED <<built, variant, dimension, reciprocal>>
                ELSE IF g.raised # ""
                THEN /\ raised' = g.raised
                     /\ UNCHANGED <<built, variant, dimension, reciprocal>>
                ELSE /\ built' = TRUE
                     /\ raised' = ""
                     /\ _type' = "nonLinearQuantitative"
                     /\ _number_of_points' = Len(array)
                     /\ _unit' = unit
                     /\ _reference_offset' = _ro
                     /\ _origin_offset' = _oo
                     /\ _made_dimensionless' = made_dimensionless
                     /\ _reverse' = FALSE
                     /\ _period' = None
                     /\ _quantity' = _check_quantity(unit)
                     /\ _label' = ""
                     /\ reciprocal' = ReciprocalVariable(None, None, None, "",
                                                         Inverse(unit))
                     /\ _coordinates' = g._coordinates
                     /\ _absolute_coordinates' = g._absolute_coordinates
                     /\ _values' = array
                     /\ _increment' = None
                     /\ _fft_output_order' = FALSE
                     /\ UNCHANGED <<_dimensionless_unit, _components, checked>>

\* what an assignment of an offset leaves alone
OffsetFrame ==
    UNCHANGED <<built, _type, _values, _dimensionless_unit, _reverse,
                _components, _made_dimensionless, checked, _number_of_points,
                _increment, _fft_output_order, _unit, _period, _quantity,
                _label, reciprocal>>

\* reference_offset setter: the value checked against the unit, assigned,
\* then _getCoordinates
nonLinearQuantitative_reference_offset(value) ==
    LET g == _getCoordinates(_coordinates, _unit, value,
                             _origin_offset, _made_dimensionless,
                             _absolute_coordinates)
    IN  /\ built
        /\ _type = "nonLinearQuantitative"
        /\ called' = "reference_offset"
        /\ IF ~Consistent(value, _unit)
           THEN /\ raised' = "DimensionalityError"
                /\ UNCHANGED <<variant, dimension, reciprocal, built>>
           ELSE /\ InRange(g._coordinates)
                /\ _reference_offset' = value
                /\ _coordinates' = g._coordinates
                /\ _absolute_coordinates' = g._absolute_coordinates
                /\ raised' = g.raised
                /\ UNCHANGED _origin_offset
                /\ OffsetFrame

\* origin_offset setter: the value checked against the unit, assigned,
\* then _getCoordinates
nonLinearQuantitative_origin_offset(value) ==
    LET g == _getCoordinates(_coordinates, _unit, _reference_offset,
                             value, _made_dimensionless,
                             _absolute_coordinates)
    IN  /\ built
        /\ _type = "nonLinearQuantitative"
        /\ called' = "origin_offset"
        /\ IF ~Consistent(value, _unit)
           THEN /\ raised' = "DimensionalityError"
                /\ UNCHANGED <<variant, dimension, reciprocal, built>>
           ELSE /\ InRange(g._coordinates)
                /\ _origin_offset' = value
                /\ _coordinates' = g._coordinates
                /\ _absolute_coordinates' = g._absolute_coordinates
                /\ raised' = g.raised
                /\ UNCHANGED _reference_offset
                /\ OffsetFrame

\* _dimensionlessConversion(unit, _oldValue), called with the new flag
\* stored: with a sum of the offsets that is not zero the coordinates are
\* divided by it and taken to ppm when the flag was raised, multiplied by
\* it and taken to the unit when it was dropped; with a zero sum the old
\* flag is assigned as self._made_dimensionless, an assignment __setattr__
\* refuses for every name in __slots__.  The result: what is raised, the
\* coordinates and the flag afterwards.
_dimensionlessConversion(array, unit, origin_offset, reference_offset, made_dimensionless, _oldValue) ==
    LET denominator == Denominator(origin_offset, reference_offset)
        same == [raised |-> "", _coordinates |-> array,
                 _made_dimensionless |-> made_dimensionless]
    IN  IF denominator.value # Zero
        THEN IF made_dimensionless = _oldValue
             THEN same
             ELSE IF made_dimensionless
             THEN IF Convertible(array.unit, denominator.unit)
                  THEN [same EXCEPT !._coordinates =
                           ByFactor(array,
                                 RDiv(RDiv(Scale(array.unit),
                                           RMul(denominator.value,
                                                Scale(denominator.unit))),
                                      Scale("ppm")), "ppm")]
                  ELSE [same EXCEPT !.raised = "UnitConversionError"]
             ELSE IF Convertible(array.unit, "")
                  THEN [same EXCEPT !._coordinates =
                           ByFactor(array,
                                 RDiv(RMul(Scale(array.unit),
                                           RMul(denominator.value,
                                                Scale(denominator.unit))),
                                      Scale(unit)), unit)]
                  ELSE [same EXCEPT !.raised = "UnitConversionError"]
        ELSE [same EXCEPT !.raised = "AttributeError"]

\* made_dimensionless setter: the old flag read, the new one stored, then
\* _dimensionlessConversion
made_dimensionless(value) ==
    LET _oldValue == _made_dimensionless
        c == _dimensionlessConversion(_coordinates, _unit, _origin_offset,
                                      _reference_offset, value, _oldValue)
    IN  /\ built
        /\ _type = "nonLinearQuantitative"
        /\ called' = "made_dimensionless"
        /\ InRange(c._coordinates)
        /\ _made_dimensionless' = c._made_dimensionless
        /\ _coordinates' = c._coordinates
        /\ raised' = c.raised
        /\ UNCHANGED <<built, _type, _values, _dimensionless_unit, _reverse,
                       _components, _absolute_coordinates, checked, _number_of_points,
                       _increment, _fft_output_order, _unit,
                       _reference_offset, _origin_offset, _period, _quantity,
                       _label, reciprocal>>

\* lists of coordinates: [], ["1 G"], ["2 s", "3 s"], ["1 G", "3 G"],
\* ["1 G", "10 s"]
CoordinateLists ==
    {<<>>, <<Q(1, 1, "G")>>, <<Q(2, 1, "s"), Q(3, 1, "s")>>,
     <<Q(1, 1, "G"), Q(3, 1, "G")>>, <<Q(1, 1, "G"), Q(10, 1, "s")>>}

\* offsets given to the constructor: absent, 1 G
ConstructedOffsets == {None, Q(1, 1, "G")}

\* offsets assigned afterwards: 0 G, 1 G, -1 G, 1 s
AssignedOffsets ==
    {Q(0, 1, "G"), Q(1, 1, "G"), Q(-1, 1, "G"), Q(1, 1, "s")}

ConstructNonLinear ==
    \E array \in CoordinateLists, reference_offset \in ConstructedOffsets,
       origin_offset \in ConstructedOffsets, flag \in BOOLEAN :
        nonLinearQuantitativeControlledVariable(array, reference_offset,
                                                origin_offset, flag)

SetNonLinearReferenceOffset ==
    \E value \in AssignedOffsets : nonLinearQuantitative_reference_offset(value)

SetNonLinearOriginOffset ==
    \E value \in AssignedOffsets : nonLinearQuantitative_origin_offset(value)

SetMadeDimensionless ==
    \E value \in BOOLEAN : made_dimensionless(value)

NextNonLinear ==
    \/ ConstructNonLinear
    \/ SetNonLinearReferenceOffset
    \/ SetNonLinearOriginOffset
    \/ SetMadeDimensionless

\* the non-linear quantitative variable, its offsets and its flag
SpecNonLinear == Init /\ [][NextNonLinear]_vars

\* the values given to the constructor, shifted by the current offsets
StatedCoordinates ==
    Shifted(ArbitraryCoordinates(_values, _unit),
            Negative(to(_reference_offset, _unit)))

\* C25: for a non-linear quantitative dimension built from the values A
\* that was never made dimensionless, after any sequence of assignments of
\* reference_offset and origin_offset the coordinates are A - c and the
\* absolute coordinates A - c + o for the current offsets c and o
C25_StatedCoordinates ==
    (/\ built
     /\ _type = "nonLinearQuantitative"
     /\ called \in {"__init__", "reference_offset", "origin_offset"}
     /\ raised = ""
     /\ ~_made_dimensionless
     /\ _coordinates.unit = _unit)
        => /\ _coordinates = StatedCoordinates
           /\ _absolute_coordinates =
                  Shifted(StatedCoordinates, to(_origin_offset, _unit))


\* the sum of the offsets is zero
ZeroDenominator ==
    Denominator(_origin_offset, _reference_offset).value = Zero

\* C29: assigning made_dimensionless while origin_offset +
\* reference_offset is zero completes without raising and leaves the flag
\* and the coordinates as they were
C29_StatedNoChanges ==
    [][((\E value \in BOOLEAN : made_dimensionless(value)) /\ ZeroDenominator)
          => /\ raised' = ""
             /\ _made_dimensionless' = _made_dimensionless
             /\ _coordinates' = _coordinates]_vars

(***************************************************************************)
(* _check_dimension_indices: the axes of the dimensions an operation of    *)
(* the numpy wrapper acts on.                                              *)
(***************************************************************************)
MaxDimensions == 3
MaxIndex == 5

\* an index item: an integer or a string
Integer(n) ==
    [type |-> "int", value |-> n]

\* _correct_index(i, d): TypeError for an item that is not an integer; a
\* negative i is raised by d; IndexError when i > d; the axis -1 - i
_correct_index(i, d) ==
    IF i.type # "int"
    THEN [raised |-> "TypeError", axis |-> 0]
    ELSE LET j == IF i.value < 0 THEN i.value + d ELSE i.value
         IN  IF j > d
             THEN [raised |-> "IndexError", axis |-> 0]
             ELSE [raised |-> "", axis |-> -1 - j]

\* _check_dimension_indices(d, index): a tuple is taken as a list; the
\* items of a list are corrected in order, the first one refused raises;
\* an integer gives a tuple of one axis; anything else reaches
\* raise TypeError(f"... {type(i)}") with i unbound
_check_dimension_indices(d, index) ==
    IF index.form \in {"list", "tuple", "int"}
    THEN LET corrected == [k \in 1..Len(index.items) |->
                              _correct_index(index.items[k], d)]
             refused == {k \in 1..Len(index.items) : corrected[k].raised # ""}
             first == CHOOSE k \in refused : \A l \in refused : k <= l
         IN  IF refused # {}
             THEN [raised |-> corrected[first].raised, axes |-> <<>>]
             ELSE [raised |-> "",
                   axes |-> [k \in 1..Len(index.items) |-> corrected[k].axis]]
    ELSE [raised |-> "UnboundLocalError", axes |-> <<>>]

\* a call of _check_dimension_indices on a dataset of d dimensions
CheckDimensionIndices(d, index) ==
    LET result == _check_dimension_indices(d, index)
    IN  /\ checked' = [d |-> d, index |-> index, raised |-> result.raised,
                       axes |-> result.axes]
        /\ called' = "_check_dimension_indices"
        /\ raised' = result.raised
        /\ UNCHANGED <<built, _type, _values, _dimensionless_unit, _reverse,
                       _components, _made_dimensionless,
                       _absolute_coordinates, dimension, reciprocal>>

\* the items of an index: the integers -MaxIndex..MaxIndex and a string
IndexItems ==
    {Integer(n) : n \in -MaxIndex..MaxIndex} \cup {[type |-> "str", value |-> 0]}

\* the counts of dimensions of a dataset
DimensionCounts == 1..MaxDimensions

CheckInteger ==
    \E d \in DimensionCounts, i \in IndexItems :
        CheckDimensionIndices(d, [form |-> IF i.type = "int" THEN "int" ELSE "str",
                                  items |-> <<i>>])

CheckList ==
    \E d \in DimensionCounts, form \in {"list", "tuple"},
       i \in IndexItems, j \in {Integer(n) : n \in -MaxDimensions..MaxDimensions} :
        \/ CheckDimensionIndices(d, [form |-> form, items |-> <<i, j>>])
        \/ CheckDimensionIndices(d, [form |-> form, items |-> <<>>])

NextIndices ==
    \/ CheckInteger
    \/ CheckList

\* calls of _check_dimension_indices
SpecIndices == Init /\ [][NextIndices]_vars

\* the index is an integer, a list or a tuple of integers
IntegerIndex ==
    /\ checked.index.form \in {"int", "list", "tuple"}
    /\ \A k \in 1..Len(checked.index.items) : checked.index.items[k].type = "int"

\* C30: for an integer index, or a list or tuple of integers,
\* _check_dimension_indices(d, index) raises IndexError or returns only
\* axes in -d..-1, and an index with an item i >= d or i < -d is refused
\* with IndexError
C30_StatedAxes ==
    (called = "_check_dimension_indices" /\ IntegerIndex)
        => /\ \/ checked.raised = "IndexError"
              \/ /\ checked.raised = ""
                 /\ \A k \in 1..Len(checked.axes) :
                        checked.axes[k] \in -(checked.d)..-1
           /\ (\E k \in 1..Len(checked.index.items) :
                   \/ checked.index.items[k].value >= checked.d
                   \/ checked.index.items[k].value < -(checked.d))
                  => checked.raised = "IndexError"

(***************************************************************************)
(* The dimension and its ReciprocalVariable as two objects: the setters    *)
(* BaseIndependentVariable gives to each of them, and _swap.               *)
(***************************************************************************)
\* origin_offset.setter of the reciprocal: the check against its own unit
reciprocal_origin_offset_setter(value) ==
    /\ built
    /\ called' = "reciprocal_origin_offset"
    /\ IF Consistent(value, reciprocal._unit)
       THEN /\ reciprocal' = [reciprocal EXCEPT !._origin_offset = value]
            /\ raised' = ""
       ELSE /\ raised' = "DimensionalityError"
            /\ UNCHANGED reciprocal
    /\ UNCHANGED <<built, variant, dimension>>

\* period.setter of the reciprocal
reciprocal_period_setter(value) ==
    /\ built
    /\ called' = "reciprocal_period"
    /\ IF value.value = Infinity
       THEN /\ reciprocal' = [reciprocal EXCEPT !._period =
                                 [value |-> Infinity, unit |-> reciprocal._unit]]
            /\ raised' = ""
       ELSE IF ValueObjectOk(value, reciprocal._unit)
       THEN /\ reciprocal' = [reciprocal EXCEPT !._period =
                                 _check_value_object(value, reciprocal._unit)]
            /\ raised' = ""
       ELSE /\ raised' = "DimensionalityError"
            /\ UNCHANGED reciprocal
    /\ UNCHANGED <<built, variant, dimension>>

\* a faulty setter: the label is one object held by both
reciprocal_label_setter_shared(label) ==
    /\ built
    /\ called' = "reciprocal_label"
    /\ reciprocal' = [reciprocal EXCEPT !._label = label]
    /\ _label' = label
    /\ raised' = ""
    /\ UNCHANGED <<built, variant, _number_of_points, _increment,
                   _fft_output_order, _unit, _reference_offset, _origin_offset,
                   _period, _quantity, _coordinates>>

\* label.setter of the reciprocal
reciprocal_label_setter(label) ==
    /\ built
    /\ called' = "reciprocal_label"
    /\ reciprocal' = [reciprocal EXCEPT !._label = label]
    /\ raised' = ""
    /\ UNCHANGED <<built, variant, dimension>>

\* a dimension of two points, 1 G apart, with the reciprocal label given
PairArguments ==
    [_number_of_points : {2},
     _increment : {Q(1, 1, "G")},
     _reference_offset : {None, Q(1, 1, "G")},
     _origin_offset : {None},
     _period : {None},
     _label : {""},
     _fft_output_order : {FALSE},
     _reciprocal_reference_offset : {None},
     _reciprocal_label : {"inverse field"}]

ConstructPair ==
    \E a \in PairArguments : DimensionWithLinearSpacing(a)

SetReciprocalOriginOffset ==
    \E value \in ReciprocalOffsetInputs : reciprocal_origin_offset_setter(value)

SetReciprocalPeriod ==
    \E value \in PeriodInputs : reciprocal_period_setter(value)

SetReciprocalLabel ==
    \E label \in LabelInputs : reciprocal_label_setter(label)

\* the assignments of a field of the dimension
AssignsDimension ==
    \/ SetReferenceOffset
    \/ SetOriginOffset
    \/ SetPeriod
    \/ SetLabel

\* the assignments of a field of the reciprocal
AssignsReciprocal ==
    \/ SetReciprocalReferenceOffset
    \/ SetReciprocalOriginOffset
    \/ SetReciprocalPeriod
    \/ SetReciprocalLabel

NextPair ==
    \/ ConstructPair
    \/ SetReferenceOffset
    \/ SetOriginOffset
    \/ SetPeriod
    \/ SetLabel
    \/ SetReciprocalReferenceOffset
    \/ SetReciprocalOriginOffset
    \/ SetReciprocalPeriod
    \/ SetReciprocalLabel
    \/ Swap

\* the dimension, its reciprocal, their setters and _swap
SpecPair == Init /\ [][NextPair]_vars

\* C26: an assignment of an offset, the period or the label of the
\* reciprocal leaves every field and the coordinates of the dimension as
\* they were, and an assignment of a field of the dimension leaves every
\* field of the reciprocal as it was, before and after any number of swaps
C26_NoAliasing ==
    [][/\ AssignsReciprocal => UNCHANGED <<dimension, variant>>
       /\ AssignsDimension => UNCHANGED reciprocal]_vars

\* after a swap the dimension holds the label given to the reciprocal, and
\* a label assigned to the reciprocal since has not reached it
C26_Witness ==
    /\ built
    /\ called = "reciprocal_label"
    /\ _unit = "1 / G"
    /\ _label = "inverse field"
    /\ reciprocal._label = "field"
    /\ reciprocal._unit = "G"

(***************************************************************************)
(* The Fourier transform as a function of the slots, to apply it twice.    *)
(***************************************************************************)
\* the slots of the dimension, its reciprocal and the data, as a record
Slots ==
    [_number_of_points |-> _number_of_points,
     _increment |-> _increment,
     _fft_output_order |-> _fft_output_order,
     _unit |-> _unit,
     _reference_offset |-> _reference_offset,
     _origin_offset |-> _origin_offset,
     _period |-> _period,
     _quantity |-> _quantity,
     _label |-> _label,
     _coordinates |-> _coordinates,
     reciprocal |-> reciprocal,
     _components |-> _components,
     raised |-> raised]

\* the slots after the step
SlotsAfter ==
    [_number_of_points |-> _number_of_points',
     _increment |-> _increment',
     _fft_output_order |-> _fft_output_order',
     _unit |-> _unit',
     _reference_offset |-> _reference_offset',
     _origin_offset |-> _origin_offset',
     _period |-> _period',
     _quantity |-> _quantity',
     _label |-> _label',
     _coordinates |-> _coordinates',
     reciprocal |-> reciprocal',
     _components |-> _components',
     raised |-> raised']

\* fft(object, dimension) on a linear dimension with the slots given: the
\* slots it leaves, with what it raised
fft_of(object) ==
    LET unit_in == object._unit
        _reciprocal_increment ==
            ReciprocalIncrement(object._number_of_points, object._increment)
        pair == _swap([_reference_offset |-> object._reference_offset,
                       _origin_offset |-> object._origin_offset,
                       _period |-> object._period,
                       _quantity |-> object._quantity,
                       _label |-> object._label,
                       _unit |-> object._unit], object.reciprocal)
        swapped == [object EXCEPT !._reference_offset = pair.dimension._reference_offset,
                                !._origin_offset = pair.dimension._origin_offset,
                                !._period = pair.dimension._period,
                                !._quantity = pair.dimension._quantity,
                                !._label = pair.dimension._label,
                                !._unit = pair.dimension._unit,
                                !.reciprocal = pair.reciprocal]
        unit == swapped._unit
        increment == to(_reciprocal_increment, unit)
    IN  IF ~Convertible(_reciprocal_increment.unit, unit)
        THEN [swapped EXCEPT !.raised = "UnitConversionError"]
        ELSE IF \/ ~Convertible(swapped.reciprocal._reference_offset.unit, unit_in)
                \/ ~Convertible(swapped._coordinates.unit, unit)
        THEN [swapped EXCEPT !._increment = increment,
                             !.raised = "UnitConversionError"]
        ELSE [swapped EXCEPT !._increment = increment,
                             !._components = IF object._fft_output_order
                                             THEN "ifft" ELSE "fft",
                             !._fft_output_order = ~object._fft_output_order,
                             !._coordinates =
                                 _get_coordinates(unit, object._number_of_points,
                                                  increment,
                                                  ~object._fft_output_order),
                             !.raised = ""]

\* every transform of a linear dimension leaves the slots fft_of gives
TransformIsFunction ==
    [][(fft /\ _type = "linear_spacing") => SlotsAfter = fft_of(Slots)]_vars

\* the fields of the dimension and of its reciprocal the transform writes
Restorable(object) ==
    [_increment |-> object._increment,
     _fft_output_order |-> object._fft_output_order,
     _unit |-> object._unit,
     _reference_offset |-> object._reference_offset,
     _origin_offset |-> object._origin_offset,
     _period |-> object._period,
     _label |-> object._label,
     _coordinates |-> object._coordinates,
     reciprocal |-> object.reciprocal]

\* C27: two Fourier transforms in a row of a linear dimension restore its
\* increment, unit, offsets, period, label, FFT ordering flag and
\* coordinates, and the fields of its reciprocal (for a dimension with at
\* least one point, so that N * m is not zero)
C27_StatedRestored ==
    (built /\ _type = "linear_spacing" /\ _number_of_points > 0)
        => Restorable(fft_of(fft_of(Slots))) = Restorable(Slots)

(***************************************************************************)
(* A dimension constructed from the dictionary of another one.             *)
(***************************************************************************)
\* the keys of the default dictionary of ControlledVariable.__init__
default_keys ==
    {"sampling_type", "non_quantitative", "number_of_points",
     "sampling_interval", "values", "reference_offset", "origin_offset",
     "made_dimensionless", "reverse", "fft_output_order", "period",
     "quantity", "label", "reciprocal"}

\* the key of the input is copied over the default
Given(input, key) ==
    key \in DOMAIN input /\ key \in default_keys

\* a quantity read back from its text
string_to_quantity(text) ==
    [value |-> text[1], unit |-> text[2]]

\* the value of a key that holds a quantity: the default None, or the
\* quantity the text of the input stands for
QuantityUnder(input, key) ==
    IF Given(input, key) THEN string_to_quantity(input[key]) ELSE None

\* the dictionary __init__ works with: its defaults, each replaced by the
\* value the input has under the same key; a key of the input that is not
\* a key of the defaults is not read
Recognized(input) ==
    [non_quantitative |-> IF Given(input, "non_quantitative")
                          THEN input["non_quantitative"] ELSE FALSE,
     number_of_points |-> IF Given(input, "number_of_points")
                          THEN {input["number_of_points"]} ELSE {},
     sampling_interval |-> QuantityUnder(input, "sampling_interval"),
     values |-> IF Given(input, "values") THEN {input["values"]} ELSE {},
     reference_offset |-> QuantityUnder(input, "reference_offset"),
     origin_offset |-> QuantityUnder(input, "origin_offset"),
     period |-> QuantityUnder(input, "period"),
     label |-> IF Given(input, "label") THEN input["label"] ELSE "",
     reverse |-> IF Given(input, "reverse") THEN input["reverse"] ELSE FALSE,
     fft_output_order |-> IF Given(input, "fft_output_order")
                          THEN input["fft_output_order"] ELSE FALSE]

\* no dimension: the constructor raised
NotConstructed(exception) ==
    [raised |-> exception, _type |-> "None", _number_of_points |-> 0,
     _coordinates |-> [value |-> <<>>, unit |-> "None"],
     _reference_offset |-> None, _origin_offset |-> None, _period |-> None,
     _label |-> "", _reverse |-> FALSE, _fft_output_order |-> FALSE]

\* ControlledVariable(input): the dimension the constructor keeps for an
\* input dictionary, or what it raises.  labels tells that the items under
\* 'values' are labels, which are not the text of a quantity.
ControlledVariable_of(input, labels) ==
    LET d == Recognized(input)
    IN  IF _check_non_quantitative_raises(d) \/ _check_quantitative_raises(d)
        THEN NotConstructed("Exception")
        ELSE IF _check_non_quantitative(d)
        THEN [raised |-> "", _type |-> "labeled",
              _number_of_points |-> Len(ValuesOf(d)),
              _coordinates |-> [value |-> ValuesOf(d), unit |-> "None"],
              _reference_offset |-> None, _origin_offset |-> None,
              _period |-> None, _label |-> d.label, _reverse |-> d.reverse,
              _fft_output_order |-> FALSE]
        ELSE IF _check_quantitative_arbitrary(d) /\ ValuesOf(d) = <<>>
        THEN NotConstructed("IndexError")
        ELSE IF _check_quantitative_arbitrary(d) /\ labels
        THEN NotConstructed("ValueError")
        ELSE IF /\ _check_quantitative_arbitrary(d)
                /\ \/ ArbitraryRaises(ValuesOf(d), ValuesOf(d)[1].unit) # ""
                   \/ ~ParametersOk(d.reference_offset, d.origin_offset,
                                    d.period, ValuesOf(d)[1].unit)
        THEN NotConstructed("DimensionalityError")
        ELSE IF _check_quantitative_linear(d)
        THEN LET N == CHOOSE n \in d.number_of_points : TRUE
                 unit == d.sampling_interval.unit
             IN  IF ~ParametersOk(d.reference_offset, d.origin_offset,
                                  d.period, unit)
                 THEN NotConstructed("DimensionalityError")
                 ELSE [raised |-> "", _type |-> "linear_spacing",
                       _number_of_points |-> N,
                       _coordinates |-> _get_coordinates(unit, N,
                                            d.sampling_interval,
                                            d.fft_output_order),
                       _reference_offset |->
                           _check_value_object(d.reference_offset, unit),
                       _origin_offset |->
                           _check_value_object(d.origin_offset, unit),
                       _period |-> StoredPeriod(d.period, unit),
                       _label |-> d.label, _reverse |-> d.reverse,
                       _fft_output_order |-> d.fft_output_order]
        ELSE IF _check_quantitative_arbitrary(d)
        THEN LET unit == ValuesOf(d)[1].unit
             IN  [raised |-> "", _type |-> "arbitrary_spacing",
                  _number_of_points |-> Len(ValuesOf(d)),
                  _coordinates |-> ArbitraryCoordinates(ValuesOf(d), unit),
                  _reference_offset |->
                      _check_value_object(d.reference_offset, unit),
                  _origin_offset |->
                      _check_value_object(d.origin_offset, unit),
                  _period |-> StoredPeriod(d.period, unit),
                  _label |-> d.label, _reverse |-> d.reverse,
                  _fft_output_order |-> FALSE]
        ELSE NotConstructed("UnboundLocalError")

\* the dimension constructed from the dictionary of the current one
Reconstructed ==
    ControlledVariable_of(_get_python_dictionary, _type = "labeled")

\* the fields of the current dimension a dictionary is to carry
Carried ==
    [raised |-> "", _type |-> _type, _number_of_points |-> _number_of_points,
     _coordinates |-> _coordinates, _reference_offset |-> _reference_offset,
     _origin_offset |-> _origin_offset, _period |-> _period,
     _label |-> _label, _reverse |-> _reverse,
     _fft_output_order |-> _fft_output_order]

\* C28: the dimension constructed from the dictionary of a dimension of
\* any variant is of the same variant and has the same count, coordinates,
\* offsets, period, label, reverse and FFT ordering flag
C28_StatedRoundTrip ==
    built => Reconstructed = Carried

=============================================================================
